---- MODULE Spec2Model ----
(***************************************************************************)
(* Card-data enrichment and caching of the TCG collection manager.         *)
(*                                                                         *)
(* ScryfallService (the cached provider client) and CardsService (single   *)
(* and batch enrichment) run as cooperative asynchronous tasks on one      *)
(* event loop: code between two awaits is one atomic step, and the steps   *)
(* of different calls interleave at the awaits (the provider fetch).       *)
(***************************************************************************)
EXTENDS Integers, Naturals, Sequences, FiniteSets, TLC

(* ------------------------------ bounds -------------------------------- *)

\* Longest result.rows handed to one getCollectionCards call.
MaxRows == 2
\* Number of service calls (single or batch) started in one behaviour.
MaxStarts == 2
\* Number of clock advances in one behaviour.
MaxTicks == 2
\* Number of times the provider changes the data of a card (price drift).
MaxChanges == 1

\* Number of addCard, updateCard and deleteCard calls in one behaviour.
MaxOps == 2
\* Longest deck list handed to one import.
MaxEntries == 3
\* Number of register and login calls in one behaviour.
MaxAuth == 3
\* Number of events, interval ticks and checkNow calls the connection
\* monitor gets in one behaviour.
MaxEvents == 4

(* ------------------------- program constants -------------------------- *)

\* private readonly cacheTTL = 60 * 60 * 1000
cacheTTL == 60 * 60 * 1000
\* if (this.cacheMisses % 100 === 0)
SweepEvery == 100

(* ------------------------------ values -------------------------------- *)

\* Provider card ids (scryfall_id values).
Ids == {"A", "B"}

\* null, as a value of the shape of a provider body.
Null == [id |-> "null", ver |-> 0]

\* The rows of the cards table, newest first; two cards share a provider
\* id, so one batch can miss twice on the same id.
CardTable ==
    << [id |-> "c1", collection_id |-> "col1", scryfall_id |-> "A", quantity |-> 1],
       [id |-> "c2", collection_id |-> "col1", scryfall_id |-> "A", quantity |-> 2],
       [id |-> "c3", collection_id |-> "col1", scryfall_id |-> "B", quantity |-> 1] >>

StoredCards == {CardTable[i] : i \in 1..Len(CardTable)}

NoCard == [id |-> "none", collection_id |-> "none", scryfall_id |-> "none", quantity |-> 0]

\* result.rows of SELECT * FROM cards WHERE collection_id = $1 ORDER BY
\* added_at DESC: some of the rows, in table order.
RowLists ==
    { [i \in 1..Len(pick) |-> CardTable[pick[i]]] :
        pick \in { p \in UNION { [1..n -> 1..Len(CardTable)] : n \in 0..MaxRows } :
                     \A i, j \in 1..Len(p) : i < j => p[i] < p[j] } }

\* What one provider request can end in: a 200 with a JSON body, a 404,
\* another non-success status, a rejected fetch, a 200 whose body fails to parse.
Outcomes == {"ok", "notfound", "error", "transport", "badjson"}

\* Clock advances: one millisecond, or one millisecond short of the TTL
\* (the two in a row make exactly the TTL).
Steps == {1, cacheTTL - 1}

\* Slot 0 is the cardsService.getCardById call, slots 1..MaxRows the
\* per-card closures of one getCollectionCards call.
Slots == 0..MaxRows

VARIABLES
    now,          \* Date.now(), relative to the first state
    ticks,        \* clock advances so far
    hist,         \* provider: per id, the times its data changed
    cache,        \* ScryfallService.cache : Map<string, CacheEntry>
    cacheHits,    \* ScryfallService.cacheHits
    cacheMisses,  \* ScryfallService.cacheMisses
    tasks,        \* per slot, the enrichment closure and its provider call
    batch,        \* the getCollectionCards call: state, rows, returned list
    doneOrder,    \* batch slots in the order their closures settled
    started,      \* service calls started so far
    view,         \* one card and the unit prices the views derived for it
    call,         \* one provider request of the service and what it gave
    prices,       \* provider: per id, the prices object of its data
    valuation,    \* the getUserCollections call and its per-collection closures
    cards,        \* the rows of the cards table
    collections,  \* the rows of the collections table, newest first
    ops,          \* per client, its addCard, updateCard or deleteCard call
    born,         \* per card id ever inserted, the scryfall_id it was inserted with
    opsStarted,   \* addCard, updateCard and deleteCard calls started so far
    imp,          \* the deck-list import: its entries, position and two lists
    reads,        \* per client, its getCollectionCards or getCardById call
    users,        \* the rows of the users table
    auth,         \* per client, its register or login call
    authStarted,  \* register and login calls started so far
    isConnected,  \* useConnectionMonitor: isConnectedRef.current
    abortRef,     \* abortRef.current: the controller of the latest health check
    intervalRef,  \* intervalRef.current: the interval startPolling set last
    timers,       \* the intervals that are set, each with its period
    checks,       \* the performHealthCheck calls so far
    visible,      \* document.visibilityState === 'visible'
    notified,     \* the calls of onConnectionLost and onConnectionRestored
    events        \* events and timer ticks delivered so far

\* The enrichment and cache state, and the state of the other parts.
enrichVars == <<now, ticks, hist, cache, cacheHits, cacheMisses, tasks, batch, doneOrder, started>>
pureVars == <<view, call>>
valueVars == <<prices, valuation>>
storeVars == <<cards, collections, ops, born, opsStarted>>
importVars == <<imp>>
readVars == <<reads>>
authVars == <<users, auth, authStarted>>
connVars == <<isConnected, abortRef, intervalRef, timers, checks, visible, notified, events>>
notEnrichVars == <<pureVars, valueVars, storeVars, importVars, readVars, authVars, connVars>>
notPureVars == <<enrichVars, valueVars, storeVars, importVars, readVars, authVars, connVars>>
\* What a step of getUserCollections leaves alone: it reads the tables
\* and goes through the cache of the ScryfallService.
notValueVars ==
    <<now, ticks, hist, tasks, batch, doneOrder, started, prices, pureVars, storeVars,
      importVars, readVars, authVars, connVars>>

\* What a step of addCard, updateCard or deleteCard leaves alone: it
\* writes the cards table and goes through the cache of the
\* ScryfallService.
notStoreVars ==
    <<now, ticks, hist, tasks, batch, doneOrder, started, pureVars, valueVars, collections,
      importVars, readVars, authVars, connVars>>
\* What a step of the deck-list import leaves alone: it inserts rows and
\* asks the provider by name, past the cache.
notImportVars ==
    <<enrichVars, pureVars, valueVars, collections, ops, opsStarted, readVars, authVars,
      connVars>>

\* What a step of getCollectionCards or getCardById leaves alone: it reads
\* the tables and goes through the cache of the ScryfallService.
notReadVars ==
    <<now, ticks, hist, tasks, batch, doneOrder, started, pureVars, valueVars, cards,
      collections, ops, born, importVars, authVars, connVars>>
\* What a step of deleteCollection leaves alone.
notCollectionVars ==
    <<enrichVars, pureVars, valueVars, born, importVars, readVars, authVars, connVars>>
notAuthVars == <<enrichVars, pureVars, valueVars, storeVars, importVars, readVars, connVars>>
notConnVars == <<enrichVars, pureVars, valueVars, storeVars, importVars, readVars, authVars>>

vars ==
    <<enrichVars, pureVars, valueVars, storeVars, importVars, readVars, authVars, connVars>>

(* --------------------------- the provider ----------------------------- *)

\* Changes of provider data so far, over all ids.
Changes == Len(hist["A"]) + Len(hist["B"])

\* Version of the data the provider holds for id k.
ProviderVer(k) == Len(hist[k]) + 1

\* The JSON body the provider answers with for /cards/{k}.
ProviderBody(k) == [id |-> k, ver |-> ProviderVer(k)]

(* ------------------------- ScryfallService ---------------------------- *)

\* Mutant: an entry aged exactly the TTL still counts as valid.
isCacheValidInclusive(entry, t) == t - entry.timestamp <= cacheTTL

\* Mutant: the age of an entry is never looked at.
isCacheValidNoExpiry(entry, t) == entry.timestamp <= t

isCacheValid(entry, t) == t - entry.timestamp < cacheTTL

\* const cached = this.cache.get(scryfallId); cached && this.isCacheValid(cached)
CacheHit(c, k, t) == k \in DOMAIN c /\ isCacheValid(c[k], t)

\* this.cache.set(scryfallId, { data, timestamp: Date.now() })
CacheSet(c, k, data, t) ==
    [x \in (DOMAIN c) \cup {k} |->
        IF x = k THEN [data |-> data, timestamp |-> t] ELSE c[x]]

\* Mutant: the sweep keeps an entry aged exactly the TTL.
cleanCacheOlderOnly(c, t) ==
    [x \in {y \in DOMAIN c : ~(t - c[y].timestamp > cacheTTL)} |-> c[x]]

cleanCache(c, t) ==
    [x \in {y \in DOMAIN c : ~(t - c[y].timestamp >= cacheTTL)} |-> c[x]]

\* if (this.cacheMisses % 100 === 0), read when the fetch has completed
ShouldSweep(misses) == misses % SweepEvery = 0

\* Mutant: the reported size counts only the entries that are still valid.
getCacheStatsValidOnly ==
    LET total == cacheHits + cacheMisses IN
    [hits |-> cacheHits, misses |-> cacheMisses,
     size |-> Cardinality({k \in DOMAIN cache : isCacheValid(cache[k], now)}),
     hitRate |-> IF total > 0 THEN (2 * 10000 * cacheHits + total) \div (2 * total)
                             ELSE 0]

\* getCacheStats().  The hitRate string "12.34%" is kept as the number
\* 1234: toFixed(2) rounds hits / total * 100 to the nearest hundredth,
\* halves upwards.
getCacheStats ==
    LET total == cacheHits + cacheMisses IN
    [hits |-> cacheHits, misses |-> cacheMisses,
     size |-> Cardinality(DOMAIN cache),
     hitRate |-> IF total > 0 THEN (2 * 10000 * cacheHits + total) \div (2 * total)
                             ELSE 0]

\* What the awaited scryfallService.getCardById promise settles to.
Fulfilled(data) == [ok |-> TRUE, status |-> 200, data |-> data]
Rejected(status) == [ok |-> FALSE, status |-> status, data |-> Null]

\* Lines 291-320 after the request was answered: the status checks, the
\* parse and the catch clause.
FetchResult(resp, body) ==
    CASE resp = "ok"       -> Fulfilled(body)
      [] resp = "notfound" -> Rejected(404)
      [] OTHER             -> Rejected(500)

\* Mutant: a failed fetch is remembered as an entry without data.
CacheAfterFetchNegative(c, k, resp, body, misses, t) ==
    IF resp = "ok"
    THEN LET stored == CacheSet(c, k, body, t)
         IN IF ShouldSweep(misses) THEN cleanCache(stored, t) ELSE stored
    ELSE CacheSet(c, k, Null, t)

\* The cache after the call's continuation ran: set and sweep on success,
\* untouched on any failure.
CacheAfterFetch(c, k, resp, body, misses, t) ==
    IF resp = "ok"
    THEN LET stored == CacheSet(c, k, body, t)
         IN IF ShouldSweep(misses) THEN cleanCache(stored, t) ELSE stored
    ELSE c

(* --------------------------- CardsService ----------------------------- *)

\* { ...card, scryfall_data: d }
Merge(card, d) ==
    [id |-> card.id, collection_id |-> card.collection_id,
     scryfall_id |-> card.scryfall_id, quantity |-> card.quantity,
     scryfall_data |-> d]

Returns(v) == [kind |-> "return", status |-> 200, value |-> v]
Throws(status) == [kind |-> "throw", status |-> status, value |-> Merge(NoCard, Null)]
Pending == [kind |-> "none", status |-> 0, value |-> Merge(NoCard, Null)]

\* Mutant: the catch clause passes the provider error on.
EnrichRethrow(card, res) ==
    IF res.ok THEN Returns(Merge(card, res.data))
              ELSE Throws(res.status)

\* Mutant: the provider data is left out of the merged record.
EnrichNoData(card, res) == Returns(Merge(card, Null))

\* try { const scryfallData = await ...; return {...card, scryfall_data: scryfallData} }
\* catch (error) { return {...card, scryfall_data: null} }
Enrich(card, res) ==
    IF res.ok THEN Returns(Merge(card, res.data))
              ELSE Returns(Merge(card, Null))

IdleTask ==
    [card |-> NoCard, pc |-> "idle", lookup |-> "none", at |-> 0, net |-> 0,
     missNo |-> 0, fetched |-> FALSE, body |-> Null, out |-> Pending]

\* Mutant: a hit answers from the cache and refreshes the entry with a
\* request of its own.
StartTaskAlwaysFetch(card, c, t, missNo) ==
    IF CacheHit(c, card.scryfall_id, t)
    THEN [IdleTask EXCEPT !.card = card, !.pc = "done", !.lookup = "hit", !.net = 1,
                          !.out = Enrich(card, Fulfilled(c[card.scryfall_id].data))]
    ELSE [IdleTask EXCEPT !.card = card, !.pc = "fetching", !.lookup = "miss", !.at = t,
                          !.net = 1, !.missNo = missNo]

\* The synchronous start of one closure: the cache lookup of lines 282-293.
\* A hit resolves at once (the continuation is a microtask); a miss sends
\* the one request and suspends.  missNo is cacheMisses after its increment,
\* at the time of the lookup, kept while the request is pending.
StartTask(card, c, t, missNo) ==
    IF CacheHit(c, card.scryfall_id, t)
    THEN [IdleTask EXCEPT !.card = card, !.pc = "done", !.lookup = "hit",
                          !.out = Enrich(card, Fulfilled(c[card.scryfall_id].data))]
    ELSE [IdleTask EXCEPT !.card = card, !.pc = "fetching", !.lookup = "miss", !.at = t,
                          !.net = 1, !.missNo = missNo]

\* Number of misses among the first i rows, all looked up in the same turn.
MissesUpTo(rows, i, c, t) ==
    Cardinality({j \in 1..i : ~CacheHit(c, rows[j].scryfall_id, t)})

\* Mutant: the values are collected as the closures settle.
CollectInCompletionOrder(ts, n, order) == [i \in 1..n |-> ts[order[i]].out.value]

\* Mutant: one card without provider data strips the data of all.
CollectAllOrNothing(ts, n, order) ==
    IF \E i \in 1..n : ts[i].out.value.scryfall_data = Null
    THEN [i \in 1..n |-> Merge(ts[i].card, Null)]
    ELSE [i \in 1..n |-> ts[i].out.value]

\* Promise.all collects the settled values by position.
Collect(ts, n, order) == [i \in 1..n |-> ts[i].out.value]

\* Mutant: the batch returns as soon as one closure has settled.
AllSettledFirstOnly(ts, n) == n = 0 \/ \E i \in 1..n : ts[i].pc = "done"

\* await Promise.all(...) resumes once every one of the n promises is
\* fulfilled.
AllSettled(ts, n) == \A i \in 1..n : ts[i].pc = "done"

IdleBatch == [pc |-> "idle", rows |-> <<>>, out |-> <<>>]

\* Mutant: the id is kept in a field of the service that the latest
\* pending call has overwritten.
StoreKeyShared(s) ==
    LET live == {x \in Slots : tasks[x].pc \in {"fetching", "responded"}}
    IN tasks[CHOOSE x \in live : \A y \in live : y <= x].card.scryfall_id

\* The scryfallId parameter of the call of slot s, captured by its
\* continuation.
StoreKey(s) == tasks[s].card.scryfall_id

(* ------------------------- price precedence --------------------------- *)

\* A price field of the provider data: undefined, null or a string.
Absent == "absent"
NullPrice == "null"
PriceStrings == {"", "0.00", "1.50", "2.00"}
PriceFields == {Absent, NullPrice} \cup PriceStrings

\* prices?: { usd?: string | null; usd_foil?: string | null }
NoPrices == [present |-> FALSE, usd |-> Absent, usd_foil |-> Absent]
Prices(u, f) == [present |-> TRUE, usd |-> u, usd_foil |-> f]

\* scryfall_data of a card with details: null, or provider data with or
\* without a prices object.
NoData == [present |-> FALSE, prices |-> NoPrices]
Data(pr) == [present |-> TRUE, prices |-> pr]
CardDatas ==
    {NoData, Data(NoPrices)} \cup {Data(Prices(u, f)) : u, f \in PriceFields}

\* scryfall_data?.prices?.usd and scryfall_data?.prices?.usd_foil
Usd(d) == IF d.present /\ d.prices.present THEN d.prices.usd ELSE Absent
UsdFoil(d) == IF d.present /\ d.prices.present THEN d.prices.usd_foil ELSE Absent

\* A JavaScript number, in cents, or NaN.
Num(c) == [nan |-> FALSE, cents |-> c]
NaN == [nan |-> TRUE, cents |-> 0]
Times(x, q) == IF x.nan THEN NaN ELSE Num(x.cents * q)
Plus(x, y) == IF x.nan \/ y.nan THEN NaN ELSE Num(x.cents + y.cents)

\* parseFloat on the strings that occur; everything that does not start
\* with a number (the empty string, undefined, null) gives NaN.
parseFloat(str) ==
    CASE str = "0"    -> Num(0)
      [] str = "0.00" -> Num(0)
      [] str = "1.50" -> Num(150)
      [] str = "2.00" -> Num(200)
      [] OTHER        -> NaN

\* a || b on values that are undefined, null or strings
Truthy(x) == x \notin {Absent, NullPrice, ""}
Or(a, b) == IF Truthy(a) THEN a ELSE b

\* a ?? b
Nullish(x) == x \in {Absent, NullPrice}
Coalesce(a, b) == IF Nullish(a) THEN b ELSE a

\* Mutant: the foil price is preferred.
BackendPriceFoilFirst(d) == parseFloat(Or(Or(UsdFoil(d), Usd(d)), "0"))

\* getUserCollections: parseFloat(prices?.usd || prices?.usd_foil || '0')
BackendPrice(d) == parseFloat(Or(Or(Usd(d), UsdFoil(d)), "0"))

\* collectionStats: parseFloat(usd || usd_foil || '0')
DetailsPrice(d) == parseFloat(Or(Or(Usd(d), UsdFoil(d)), "0"))

\* sortedCards, case 'price': parseFloat(usd ?? usd_foil ?? '0')
SortKey(d) == parseFloat(Coalesce(Coalesce(Usd(d), UsdFoil(d)), "0"))

\* The price cell: price = usd ?? usd_foil; price ? `$${price}` : '-'
PriceCell(d) ==
    LET price == Coalesce(Usd(d), UsdFoil(d)) IN
    IF Truthy(price) THEN [shown |-> TRUE, text |-> price]
                     ELSE [shown |-> FALSE, text |-> "-"]

\* A result that has not been derived yet.
NotYet == [nan |-> TRUE, cents |-> -1]
NoCell == [shown |-> FALSE, text |-> ""]

NoView == [data |-> NoData, backend |-> NotYet, details |-> NotYet,
           sortKey |-> NotYet, cell |-> NoCell]

(* -------------------- provider requests by name and query -------------- *)

Methods == {"getCardById", "getCardByName", "searchCards"}

\* { object: 'list', total_cards: 0, has_more: false, data: [] }
EmptyList == [object |-> "list", total_cards |-> 0, has_more |-> FALSE, data |-> <<>>]

\* Search results the provider answers a 200 with.
SearchBodies ==
    { [object |-> "list", total_cards |-> 1, has_more |-> FALSE,
       data |-> <<[id |-> "A", ver |-> 1]>>],
      [object |-> "list", total_cards |-> 3, has_more |-> TRUE,
       data |-> <<[id |-> "A", ver |-> 1], [id |-> "B", ver |-> 1]>>] }

\* Mutant: a 404 is reported like every other failure.
NameResultAllUnavailable(resp, body) ==
    CASE resp = "ok" -> Fulfilled(body)
      [] OTHER       -> Rejected(500)

\* getCardByName, lines 329-347, after the request was answered.
NameResult(resp, body) ==
    CASE resp = "ok"       -> Fulfilled(body)
      [] resp = "notfound" -> Rejected(404)
      [] OTHER             -> Rejected(500)

\* Mutant: a 404 raises like every other failure.
SearchResultNotFoundRaises(resp, body) ==
    CASE resp = "ok" -> Fulfilled(body)
      [] OTHER       -> Rejected(500)

\* searchCards, lines 217-239, after the request was answered.
SearchResult(resp, body) ==
    CASE resp = "ok"       -> Fulfilled(body)
      [] resp = "notfound" -> Fulfilled(EmptyList)
      [] OTHER             -> Rejected(500)

NoResult == [ok |-> FALSE, status |-> 0, data |-> Null]

NoCall == [method |-> "none", outcome |-> "none", body |-> Null, result |-> NoResult]

IdlePure ==
    /\ view = NoView
    /\ call = NoCall

(* ------------------------------ the tables ----------------------------- *)

Users == {"u1", "u2"}

\* NULL in a text column.
SqlNull == "NULL"

\* collections, ORDER BY created_at DESC: two of u1, one of u2.
SeedCollections ==
    << [id |-> "col3", user_id |-> "u2"],
       [id |-> "col2", user_id |-> "u1"],
       [id |-> "col1", user_id |-> "u1"] >>

\* A row of cards.
CardRow(id, col, sid, q) ==
    [id |-> id, collection_id |-> col, scryfall_id |-> sid, owner_name |-> "alice",
     current_deck |-> SqlNull, is_borrowed |-> FALSE, quantity |-> q,
     set_code |-> SqlNull, set_name |-> SqlNull]

\* cards: two cards in col1, one in col2 with the provider id of one of
\* the first two, none in col3.
SeedCards ==
    { CardRow("k1", "col1", "A", 1),
      CardRow("k2", "col1", "B", 2),
      CardRow("k3", "col2", "A", 3) }

\* Concurrent HTTP requests.
Clients == {1, 2}

\* The ids the table gives the rows inserted by the first, second, ...
\* call (uuid_generate_v4()).
NewIds == <<"n1", "n2", "n3", "n4">>

\* An optional field of a request body.
Given(v) == [given |-> TRUE, v |-> v]
NoText == [given |-> FALSE, v |-> ""]
NoInt == [given |-> FALSE, v |-> 0]
NoBool == [given |-> FALSE, v |-> FALSE]

\* A request body without any field.
NoRequest ==
    [scryfall_id |-> NoText, owner_name |-> NoText, current_deck |-> NoText,
     is_borrowed |-> NoBool, quantity |-> NoInt, set_code |-> NoText,
     set_name |-> NoText]

\* Bodies of POST /:collectionId/cards: the required fields only, every
\* field, and one without a provider id.
AddRequests ==
    { [NoRequest EXCEPT !.scryfall_id = Given("A"), !.owner_name = Given("bob"),
                        !.quantity = Given(2)],
      [NoRequest EXCEPT !.scryfall_id = Given("B"), !.owner_name = Given("alice"),
                        !.current_deck = Given("deck"), !.is_borrowed = Given(TRUE),
                        !.set_code = Given("lea"), !.set_name = Given("Alpha")],
      [NoRequest EXCEPT !.scryfall_id = Given(""), !.owner_name = Given("bob")] }

\* Bodies of PATCH /api/cards/:id: one field next to a scryfall_id the
\* request type does not have, the other five fields (an empty deck
\* name), and no field.
UpdateRequests ==
    { [NoRequest EXCEPT !.scryfall_id = Given("B"), !.owner_name = Given("bob")],
      [NoRequest EXCEPT !.current_deck = Given(""), !.is_borrowed = Given(TRUE),
                        !.quantity = Given(3), !.set_code = Given("m21"),
                        !.set_name = Given("Core")],
      NoRequest }

\* validateRequest of the add route: body('scryfall_id').notEmpty(),
\* body('owner_name').trim().notEmpty()
ValidAdd(data) ==
    /\ data.scryfall_id.given /\ data.scryfall_id.v # ""
    /\ data.owner_name.given /\ data.owner_name.v # ""

\* scryfallData.set and scryfallData.set_name of a provider body.
SetOf(body) == IF body.id = "A" THEN "lea" ELSE "m21"
SetNameOf(body) == IF body.id = "A" THEN "Alpha" ELSE "Core"

\* text || null
TextOrNull(o) == IF o.given /\ o.v # "" THEN o.v ELSE SqlNull

\* The row INSERT INTO cards ... RETURNING * makes of the request and the
\* provider data.
InsertRow(id, col, data, sdata) ==
    [id |-> id, collection_id |-> col, scryfall_id |-> data.scryfall_id.v,
     owner_name |-> data.owner_name.v,
     current_deck |-> TextOrNull(data.current_deck),
     is_borrowed |-> (data.is_borrowed.given /\ data.is_borrowed.v),
     quantity |-> IF data.quantity.given /\ data.quantity.v # 0
                  THEN data.quantity.v ELSE 1,
     set_code |-> IF TextOrNull(data.set_code) # SqlNull
                  THEN data.set_code.v ELSE SetOf(sdata),
     set_name |-> IF TextOrNull(data.set_name) # SqlNull
                  THEN data.set_name.v ELSE SetNameOf(sdata)]

\* updates.length === 0
HasUpdates(data) ==
    \/ data.owner_name.given \/ data.current_deck.given \/ data.is_borrowed.given
    \/ data.quantity.given \/ data.set_code.given \/ data.set_name.given

\* Mutant: a scryfall_id in the body is written like the other fields.
ApplyUpdateAnyField(row, data) ==
    [row EXCEPT
        !.scryfall_id = IF data.scryfall_id.given THEN data.scryfall_id.v ELSE @,
        !.owner_name = IF data.owner_name.given THEN data.owner_name.v ELSE @,
        !.current_deck = IF data.current_deck.given THEN TextOrNull(data.current_deck) ELSE @,
        !.is_borrowed = IF data.is_borrowed.given THEN data.is_borrowed.v ELSE @,
        !.quantity = IF data.quantity.given THEN data.quantity.v ELSE @,
        !.set_code = IF data.set_code.given THEN TextOrNull(data.set_code) ELSE @,
        !.set_name = IF data.set_name.given THEN TextOrNull(data.set_name) ELSE @]

\* UPDATE cards SET ... WHERE id = $n, with the assignments updateCard
\* builds from the fields that are not undefined.
ApplyUpdate(row, data) ==
    [row EXCEPT
        !.owner_name = IF data.owner_name.given THEN data.owner_name.v ELSE @,
        !.current_deck = IF data.current_deck.given THEN TextOrNull(data.current_deck) ELSE @,
        !.is_borrowed = IF data.is_borrowed.given THEN data.is_borrowed.v ELSE @,
        !.quantity = IF data.quantity.given THEN data.quantity.v ELSE @,
        !.set_code = IF data.set_code.given THEN TextOrNull(data.set_code) ELSE @,
        !.set_name = IF data.set_name.given THEN TextOrNull(data.set_name) ELSE @]

NoRow == CardRow("none", "none", "none", 0)

\* What a call of the CardsService ended with.
NoOut == [kind |-> "none", status |-> 0, row |-> NoRow]
Returned(status, row) == [kind |-> "return", status |-> status, row |-> row]
Threw(status) == [kind |-> "throw", status |-> status, row |-> NoRow]

IdleOp ==
    [kind |-> "none", pc |-> "idle", user |-> "none", collection |-> "none",
     card |-> "none", key |-> "none", data |-> NoRequest, res |-> NoResult,
     out |-> NoOut]

\* Mutant: addCard goes on to the INSERT whatever the lookup gave.
AfterLookupInsertAnyway(res) == [pc |-> "inserting", out |-> NoOut]

\* addCard after const scryfallData = await scryfallService.getCardById(...):
\* a rejection leaves the function, a value leads to the INSERT.
AfterLookup(res) ==
    IF res.ok THEN [pc |-> "inserting", out |-> NoOut]
              ELSE [pc |-> "done", out |-> Threw(res.status)]

\* updateCard and deleteCard after existingCard = await this.getCardById(...)
AfterFound(kind, data) ==
    IF kind = "update" /\ ~HasUpdates(data)
    THEN [pc |-> "done", out |-> Threw(400)]
    ELSE [pc |-> "writing", out |-> NoOut]

\* SELECT c.* FROM cards c INNER JOIN collections col ON ... WHERE c.id = $1
\* AND col.user_id = $2
OwnedCards(id, u) ==
    {c \in cards : /\ c.id = id
                   /\ \E x \in DOMAIN collections :
                         /\ collections[x].id = c.collection_id
                         /\ collections[x].user_id = u}

\* Mutant: the ownership query looks the collection up by id only.
OwnsAnyUser(u, col) == \E x \in DOMAIN collections : collections[x].id = col

\* SELECT * FROM collections WHERE id = $1 AND user_id = $2
Owns(u, col) ==
    \E x \in DOMAIN collections : collections[x].id = col /\ collections[x].user_id = u

InitStore ==
    /\ cards = SeedCards
    /\ collections = SeedCollections
    /\ ops = [c \in Clients |-> IdleOp]
    /\ born = [id \in {c.id : c \in SeedCards} |->
                 (CHOOSE c \in SeedCards : c.id = id).scryfall_id]
    /\ opsStarted = 0

(* -------------------------- collection totals -------------------------- *)

\* The prices objects the provider's data come with.
ValuePrices ==
    {NoPrices, Prices("1.50", "2.00"), Prices(NullPrice, "2.00"), Prices("1.50", Absent)}

\* The provider data of a body, as the price views read it.
DataOf(body) == Data(prices[body.id])

\* SELECT scryfall_id, quantity FROM cards WHERE collection_id = $1: the
\* rows of the collection, in an order the query does not fix.
RowsOf(col) ==
    LET rows == {c \in cards : c.collection_id = col}
        n == Cardinality(rows)
    IN {r \in [1..n -> rows] : \A i, j \in 1..n : i # j => r[i] # r[j]}

RECURSIVE SumQuantity(_)
\* COALESCE(SUM(quantity), 0)
SumQuantity(rows) ==
    IF rows = {} THEN 0
    ELSE LET c == CHOOSE x \in rows : TRUE
         IN c.quantity + SumQuantity(rows \ {c})

\* Mutant: a failed lookup leaves price undefined and adds
\* undefined * quantity.
ContributionNaNOnFailure(res, quantity) ==
    IF res.ok THEN Times(BackendPrice(DataOf(res.data)), quantity)
              ELSE NaN

\* What one card's closure adds to total_value once its lookup has
\* settled: price * card.quantity, or nothing from the catch clause.
Contribution(res, quantity) ==
    IF res.ok THEN Times(BackendPrice(DataOf(res.data)), quantity)
              ELSE Num(0)

RECURSIVE HitTotal(_, _, _, _)
\* total_value after the closures of the first j rows that hit the cache
\* have run, in row order.
HitTotal(rows, j, c, t) ==
    IF j = 0 THEN Num(0)
    ELSE Plus(HitTotal(rows, j - 1, c, t),
              IF CacheHit(c, rows[j].scryfall_id, t)
              THEN Contribution(Fulfilled(c[rows[j].scryfall_id].data), rows[j].quantity)
              ELSE Num(0))

\* The closure of one collection.
IdleClosure ==
    [collection |-> "none", pc |-> "idle", card_count |-> 0, rows |-> <<>>,
     state |-> <<>>, total_value |-> Num(0)]

IdleValuation ==
    [pc |-> "idle", user |-> "none", closures |-> <<>>, order |-> <<>>, out |-> <<>>]

IdleValue ==
    /\ prices = [k \in Ids |-> NoPrices]
    /\ valuation = IdleValuation

(* --------------------------- deck-list import -------------------------- *)

\* The card names the provider knows, with the id of the card of that
\* name; every other name is absent upstream.
KnownNames == {"Real Card", "Other Card"}
IdOfName(name) == IF name = "Real Card" THEN "A" ELSE "B"

\* Lines of a deck list: quantity and card name.
Entries ==
    { [name |-> "Real Card", quantity |-> 2],
      [name |-> "Other Card", quantity |-> 1],
      [name |-> "Nonexistent Xyzzy", quantity |-> 1] }

\* body('entries').isArray({ min: 1 })
EntryLists == UNION { [1..n -> Entries] : n \in 1..MaxEntries }

\* What the request for a name can end in: a known name is found unless
\* the provider or the transport fails, an absent one never is.
NameOutcomes(name) ==
    IF name \in KnownNames THEN Outcomes \ {"notfound"}
                           ELSE Outcomes \ {"ok", "badjson"}

\* The reason kept with a failed entry.
Reason(res) == IF res.status = 404 THEN "not found" ELSE "provider unavailable"

\* Mutant: the first entry that fails ends the import.
ResolveEntryOrHalt(acc, idx, entry, res, row) ==
    IF res.ok
    THEN [acc EXCEPT !.imported = Append(@, [entry |-> idx, card |-> row,
                                             scryfall_data |-> res.data])]
    ELSE [acc EXCEPT !.halted = TRUE]

\* One entry of importList once getByExactName has settled: the new card
\* joins imported, or the name and the reason join failed, and the import
\* goes on either way.
ResolveEntry(acc, idx, entry, res, row) ==
    IF res.ok
    THEN [acc EXCEPT !.imported = Append(@, [entry |-> idx, card |-> row,
                                             scryfall_data |-> res.data])]
    ELSE [acc EXCEPT !.failed = Append(@, [entry |-> idx, name |-> entry.name,
                                           reason |-> Reason(res)])]

NoLists == [imported |-> <<>>, failed |-> <<>>, halted |-> FALSE]

IdleImportCall ==
    [pc |-> "idle", collection |-> "none", owner |-> "none", entries |-> <<>>,
     i |-> 0, settled |-> <<>>, lists |-> NoLists]

IdleImport == imp = IdleImportCall

(* ------------------ getCollectionCards and getCardById ---------------- *)

\* SELECT * FROM cards WHERE collection_id = $1 ORDER BY added_at DESC: the
\* rows of the collection; rows added in the same instant come in either
\* order.
CardsOf(col) ==
    LET rows == {r \in cards : r.collection_id = col}
        n == Cardinality(rows)
    IN {q \in [1..n -> rows] : \A i, j \in 1..n : i # j => q[i] # q[j]}

\* { ...card, scryfall_data: d } of a row of cards.
WithDetails(row, d) == [card |-> row, scryfall_data |-> d]

\* What a read call of the CardsService ended with.
NoList == [kind |-> "none", status |-> 0, list |-> <<>>]
ReturnedList(list) == [kind |-> "return", status |-> 200, list |-> list]
ThrewRead(status) == [kind |-> "throw", status |-> status, list |-> <<>>]

\* A read call: what was asked for, the rows its query gave, where each
\* row's enrichment stands and what it gave.
IdleReadCall ==
    [kind |-> "none", pc |-> "idle", user |-> "none", target |-> "none",
     rows |-> <<>>, state |-> <<>>, datas |-> <<>>, out |-> NoList]

IdleRead == reads = [c \in Clients |-> IdleReadCall]

\* Mutant: the foreign key of cards.collection_id is not enforced.
ForeignKeyHoldsUnchecked(col) == TRUE

\* collection_id UUID REFERENCES collections(id): the INSERT of a card is
\* refused when no collection has the id.
ForeignKeyHolds(col) == \E x \in DOMAIN collections : collections[x].id = col

\* The error of a query the database refuses: not an AppError, it has no
\* statusCode.
DbError == [kind |-> "throw", status |-> 0, row |-> NoRow]

\* ON DELETE CASCADE: the rows of cards a DELETE of collection col leaves.
DeleteCascade(tbl, col) == {r \in tbl : r.collection_id # col}

(* ------------------------- register and login -------------------------- *)

\* The salts bcrypt.hash draws.
Salts == {"s1", "s2"}

\* bcrypt.hash(password, 10) and bcrypt.compare(password, hash)
bcryptHash(password, salt) == [rounds |-> 10, salt |-> salt, of |-> password]
bcryptCompare(password, hash) == hash.of = password

\* A row of users.
UserRow(id, email, hash) == [id |-> id, email |-> email, password_hash |-> hash]

SeedUsers ==
    { UserRow("u1", "ann@tcg.io", bcryptHash("secret1", "s1")),
      UserRow("u2", "bob@tcg.io", bcryptHash("secret2", "s2")) }

\* gen_random_uuid() for the rows inserted first, second, ...
NewUserIds == <<"u3", "u4", "u5">>

\* The credentials requests come with: a stored and a new email, the
\* stored password of the first and another one.
Emails == {"ann@tcg.io", "new@tcg.io"}
Passwords == {"secret1", "wrong"}

NoUser == UserRow("none", "none", bcryptHash("", "s1"))
NoToken == [userId |-> "none", email |-> "none"]

\* this.generateToken({ userId, email }): the payload the token carries.
generateToken(user) == [userId |-> user.id, email |-> user.email]

\* What register or login ended with.
NoAuthOut ==
    [kind |-> "none", error |-> "none", status |-> 0, message |-> "", token |-> NoToken]
AuthReturned(user) ==
    [kind |-> "return", error |-> "none", status |-> 200, message |-> "",
     token |-> generateToken(user)]
AppErrorOut(message, status) ==
    [kind |-> "throw", error |-> "AppError", status |-> status, message |-> message,
     token |-> NoToken]
\* The rejection of pool.query, passed on as it is.
DatabaseErrorOut ==
    [kind |-> "throw", error |-> "DatabaseError", status |-> 0,
     message |-> "duplicate key value violates unique constraint", token |-> NoToken]

\* SELECT ... FROM users WHERE email = $1
UsersByEmail(email) == {u \in users : u.email = email}

\* email VARCHAR(255) UNIQUE NOT NULL: the INSERT of a second row with the
\* email is refused.
UniqueEmailHolds(email) == \A u \in users : u.email # email

\* throw new AppError('Email já está em uso', 409)
EmailInUseError == AppErrorOut("Email já está em uso", 409)

\* Mutant: an unknown email is reported as such.
UnknownEmailErrorRevealing == AppErrorOut("Usuário não encontrado", 404)

\* login, no row for the email: throw new AppError('Email ou senha inválidos', 401)
UnknownEmailError == AppErrorOut("Email ou senha inválidos", 401)

\* login, bcrypt.compare false: throw new AppError('Email ou senha inválidos', 401)
WrongPasswordError == AppErrorOut("Email ou senha inválidos", 401)

IdleAuthCall ==
    [kind |-> "none", pc |-> "idle", email |-> "none", password |-> "",
     hash |-> bcryptHash("", "s1"), found |-> NoUser, out |-> NoAuthOut]

InitAuth ==
    /\ users = SeedUsers
    /\ auth = [c \in Clients |-> IdleAuthCall]
    /\ authStarted = 0

(* ------------------------ useConnectionMonitor ------------------------- *)

\* PING_INTERVAL_CONNECTED and PING_INTERVAL_DISCONNECTED
PING_INTERVAL_CONNECTED == 30000
PING_INTERVAL_DISCONNECTED == 5000

\* The interval poll() picks.
PingInterval(connected) ==
    IF connected THEN PING_INTERVAL_CONNECTED ELSE PING_INTERVAL_DISCONNECTED

\* What a health check can end in: a response that is ok, one that is
\* not, a rejected fetch, the abort of its own timeout.
CheckOutcomes == {"ok", "notok", "failed", "timeout"}

\* Where performHealthCheck is called from: the interval callback, the
\* online and visibilitychange handlers, checkNow.
NewCheck(from, interval) ==
    [pc |-> "fetching", from |-> from, interval |-> interval, result |-> "none"]

\* A call of onConnectionLost or onConnectionRestored, and what led to it.
Notice(what, by) == [call |-> what, by |-> by]

\* Mutant: the connection is reported lost whatever the flag says.
MarkLostUnguarded(flag, log, by) ==
    [flag |-> FALSE, log |-> Append(log, Notice("lost", by))]

\* if (isConnectedRef.current) { isConnectedRef.current = false;
\* onConnectionLostRef.current() }
MarkLost(flag, log, by) ==
    IF flag THEN [flag |-> FALSE, log |-> Append(log, Notice("lost", by))]
            ELSE [flag |-> flag, log |-> log]

\* if (!isConnectedRef.current) { isConnectedRef.current = true;
\* onConnectionRestoredRef.current() }
MarkRestored(flag, log, by) ==
    IF ~flag THEN [flag |-> TRUE, log |-> Append(log, Notice("restored", by))]
             ELSE [flag |-> flag, log |-> log]

\* performHealthCheck after its fetch settled: the response.ok branch, the
\* branch of a response that is not ok, the catch clause.
Settled(flag, log, result) ==
    IF result = "ok" THEN MarkRestored(flag, log, "health")
                     ELSE MarkLost(flag, log, result)

\* poll(): one more interval, with the period the flag asks for; the
\* intervals that are set stay.
Poll(ts, ref, connected) ==
    [timers |-> ts \cup {[id |-> ref + 1, period |-> PingInterval(connected)]},
     ref |-> ref + 1]

\* startPolling(): clearInterval(intervalRef.current), then poll().
StartPolling(ts, ref, connected) == Poll({t \in ts : t.id # ref}, ref, connected)

\* The .then of the interval callback (interval is 0 for a check that was
\* not started by an interval): poll() when the flag asks for another
\* period than the one the callback was set with.
ThenPoll(ts, ref, connected, interval) ==
    IF interval # 0 /\ PingInterval(connected) # interval
    THEN Poll(ts, ref, connected)
    ELSE [timers |-> ts, ref |-> ref]

\* After mount: connected, and the first interval of startPolling set.
InitConn ==
    /\ isConnected = TRUE
    /\ abortRef = 0
    /\ intervalRef = 1
    /\ timers = {[id |-> 1, period |-> PingInterval(TRUE)]}
    /\ checks = <<>>
    /\ visible = TRUE
    /\ notified = <<>>
    /\ events = 0

(* ------------------------------ actions ------------------------------- *)

InitEnrich ==
    /\ now = 0
    /\ ticks = 0
    /\ hist = [k \in Ids |-> <<>>]
    /\ cache = <<>>
    /\ cacheHits = 0
    \* a fresh service, or one whose first lookups all failed
    /\ cacheMisses \in {0, SweepEvery - 2}
    /\ tasks = [s \in Slots |-> IdleTask]
    /\ batch = IdleBatch
    /\ doneOrder = <<>>
    /\ started = 0

Init ==
    /\ InitEnrich
    /\ IdlePure
    /\ IdleValue
    /\ InitStore
    /\ IdleImport
    /\ IdleRead
    /\ InitAuth
    /\ InitConn

Tick ==
    /\ ticks < MaxTicks
    /\ \E d \in Steps : now' = now + d
    /\ ticks' = ticks + 1
    /\ UNCHANGED <<hist, cache, cacheHits, cacheMisses, tasks, batch, doneOrder, started>>
    /\ UNCHANGED notEnrichVars

\* The provider replaces the data of a card it has already served (a
\* change before the first answer cannot be told from none).
ProviderChange ==
    \E k \in Ids :
        /\ Changes < MaxChanges
        /\ k \in DOMAIN cache \/ \E s \in Slots : tasks[s].body.id = k
        /\ hist' = [hist EXCEPT ![k] = Append(@, now)]
        /\ UNCHANGED <<now, ticks, cache, cacheHits, cacheMisses, tasks, batch, doneOrder, started>>
        /\ UNCHANGED notEnrichVars

\* cardsService.getCardById whose query finds no row: AppError 404.
SingleNotFound ==
    /\ started < MaxStarts
    /\ tasks[0].pc \in {"idle", "done"}
    /\ tasks' = [tasks EXCEPT ![0] = [IdleTask EXCEPT !.pc = "done", !.out = Throws(404)]]
    /\ started' = started + 1
    /\ UNCHANGED <<now, ticks, hist, cache, cacheHits, cacheMisses, batch, doneOrder>>
    /\ UNCHANGED notEnrichVars

\* cardsService.getCardById up to the await of the provider call.
SingleStart ==
    /\ started < MaxStarts
    /\ tasks[0].pc \in {"idle", "done"}
    /\ \E card \in StoredCards :
        LET hit == CacheHit(cache, card.scryfall_id, now) IN
        /\ cacheHits' = IF hit THEN cacheHits + 1 ELSE cacheHits
        /\ cacheMisses' = IF hit THEN cacheMisses ELSE cacheMisses + 1
        /\ tasks' = [tasks EXCEPT ![0] = StartTask(card, cache, now, cacheMisses + 1)]
    /\ started' = started + 1
    /\ UNCHANGED <<now, ticks, hist, cache, batch, doneOrder>>
    /\ UNCHANGED notEnrichVars

\* cardsService.getCollectionCards from the query result to the await of
\* Promise.all: rows.map runs every closure up to its first await, in order.
BatchStart ==
    /\ started < MaxStarts
    /\ batch.pc \in {"idle", "returned", "threw"}
    /\ \E rows \in RowLists :
        LET n == Len(rows)
            m == MissesUpTo(rows, n, cache, now)
        IN
        /\ cacheMisses' = cacheMisses + m
        /\ cacheHits' = cacheHits + (n - m)
        /\ tasks' = [s \in Slots |->
                        IF s = 0 THEN tasks[0]
                        ELSE IF s <= n
                             THEN StartTask(rows[s], cache, now,
                                            cacheMisses + MissesUpTo(rows, s, cache, now))
                             ELSE IdleTask]
        /\ batch' = [pc |-> "running", rows |-> rows, out |-> <<>>]
        /\ doneOrder' = SelectSeq([i \in 1..n |-> i],
                                  LAMBDA i : CacheHit(cache, rows[i].scryfall_id, now))
    /\ started' = started + 1
    /\ UNCHANGED <<now, ticks, hist, cache>>
    /\ UNCHANGED notEnrichVars

\* The provider answers the request of slot s with a 200 and a body; the
\* body is the provider's data of that moment, stored only when the
\* continuation runs.
Respond ==
    \E s \in Slots :
        /\ tasks[s].pc = "fetching"
        /\ tasks' = [tasks EXCEPT ![s].pc = "responded",
                        ![s].body = ProviderBody(tasks[s].card.scryfall_id)]
        /\ UNCHANGED <<now, ticks, hist, cache, cacheHits, cacheMisses, batch, doneOrder, started>>
        /\ UNCHANGED notEnrichVars

\* Mutant: the catch clause of a failed fetch counts the miss once more.
FailCountsMiss ==
    \E s \in Slots, o \in Outcomes \ {"ok", "badjson"} :
        LET t == tasks[s] IN
        /\ t.pc = "fetching"
        /\ cache' = CacheAfterFetch(cache, StoreKey(s), o, Null, cacheMisses, now)
        /\ tasks' = [tasks EXCEPT ![s].pc = "done", ![s].at = 0,
                                  ![s].out = Enrich(t.card, FetchResult(o, Null))]
        /\ doneOrder' = IF s = 0 THEN doneOrder ELSE Append(doneOrder, s)
        /\ cacheMisses' = cacheMisses + 1
        /\ UNCHANGED <<now, ticks, hist, cacheHits, batch, started>>
        /\ UNCHANGED notEnrichVars

\* The request of slot s fails (404, other status, rejected fetch) and the
\* continuation runs: it reads and writes no shared state, so the answer
\* and the continuation are one step.
Fail ==
    \E s \in Slots, o \in Outcomes \ {"ok", "badjson"} :
        LET t == tasks[s] IN
        /\ t.pc = "fetching"
        /\ cache' = CacheAfterFetch(cache, StoreKey(s), o, Null, cacheMisses, now)
        /\ tasks' = [tasks EXCEPT ![s].pc = "done", ![s].at = 0,
                                  ![s].out = Enrich(t.card, FetchResult(o, Null))]
        /\ doneOrder' = IF s = 0 THEN doneOrder ELSE Append(doneOrder, s)
        /\ UNCHANGED <<now, ticks, hist, cacheHits, cacheMisses, batch, started>>
        /\ UNCHANGED notEnrichVars

\* The continuation of scryfallService.getCardById after a 200, and of
\* the enrichment closure awaiting it: response.json() yields the body or
\* rejects.
Settle ==
    \E s \in Slots, o \in {"ok", "badjson"} :
        LET t == tasks[s]
            body == IF o = "ok" THEN t.body ELSE Null
        IN
        /\ t.pc = "responded"
        /\ cache' = CacheAfterFetch(cache, StoreKey(s), o, body, cacheMisses, now)
        /\ tasks' = [tasks EXCEPT ![s].pc = "done", ![s].at = 0,
                                  ![s].fetched = (o = "ok"), ![s].body = body,
                                  ![s].out = Enrich(t.card, FetchResult(o, body))]
        /\ doneOrder' = IF s = 0 THEN doneOrder ELSE Append(doneOrder, s)
        /\ UNCHANGED <<now, ticks, hist, cacheHits, cacheMisses, batch, started>>
        /\ UNCHANGED notEnrichVars

\* Promise.all settles: rejected as soon as one closure threw, fulfilled
\* with the list once every closure returned.
BatchReturn ==
    /\ batch.pc = "running"
    /\ LET n == Len(batch.rows) IN
       IF \E i \in 1..n : tasks[i].out.kind = "throw"
       THEN batch' = [batch EXCEPT !.pc = "threw"]
       ELSE /\ AllSettled(tasks, n)
            /\ batch' = [batch EXCEPT !.pc = "returned",
                                      !.out = Collect(tasks, n, doneOrder)]
    /\ UNCHANGED <<now, ticks, hist, cache, cacheHits, cacheMisses, tasks, doneOrder, started>>
    /\ UNCHANGED notEnrichVars

\* The provider's data is fixed per id (as the cache assumes within a TTL
\* window).
Next ==
    \/ Tick
    \/ SingleNotFound
    \/ SingleStart
    \/ BatchStart
    \/ Respond
    \/ Fail
    \/ Settle
    \/ BatchReturn

Spec == Init /\ [][Next]_vars

\* The same program against a provider whose data drifts.
NextDrift ==
    \/ Next
    \/ ProviderChange

SpecDrift == Init /\ [][NextDrift]_vars

\* A step of the provider call of slot s: the answer to its request or
\* the continuation that follows it.
ProviderSettles(s) == (Respond \/ Fail \/ Settle) /\ tasks'[s] # tasks[s]

\* Every pending provider call eventually settles, and the event loop
\* eventually runs a continuation that is ready.
SpecFair ==
    /\ Spec
    /\ \A s \in Slots : WF_vars(ProviderSettles(s))
    /\ WF_vars(BatchReturn)

(* --------------- one card in every view, one provider request ---------- *)

InitPure ==
    /\ InitEnrich
    /\ IdleValue
    /\ InitStore
    /\ IdleImport
    /\ IdleRead
    /\ InitAuth
    /\ InitConn
    /\ \E d \in CardDatas : view = [NoView EXCEPT !.data = d]
    /\ \E m \in Methods, o \in Outcomes :
          \E b \in IF m = "searchCards" THEN SearchBodies
                                       ELSE {ProviderBody(k) : k \in Ids} :
              call = [method |-> m, outcome |-> o, body |-> b, result |-> NoResult]

\* The card's share of total_value per copy; the catch clause of a failed
\* lookup adds nothing.
ValueOnBackend ==
    /\ view.backend = NotYet
    /\ view' = [view EXCEPT !.backend =
                    IF view.data.present THEN BackendPrice(view.data) ELSE Num(0)]
    /\ UNCHANGED <<notPureVars, call>>

\* The card's share of collectionStats.totalValue per copy.
ValueOnDetails ==
    /\ view.details = NotYet
    /\ view' = [view EXCEPT !.details = DetailsPrice(view.data)]
    /\ UNCHANGED <<notPureVars, call>>

\* The card's key when the table is sorted by price.
SortByPrice ==
    /\ view.sortKey = NotYet
    /\ view' = [view EXCEPT !.sortKey = SortKey(view.data)]
    /\ UNCHANGED <<notPureVars, call>>

\* The card's market price cell.
RenderPriceCell ==
    /\ view.cell = NoCell
    /\ view' = [view EXCEPT !.cell = PriceCell(view.data)]
    /\ UNCHANGED <<notPureVars, call>>

\* The provider request ends as call.outcome says and the method's
\* continuation runs (for getCardById, the one of a cache miss).
Answer ==
    /\ call.result = NoResult
    /\ LET body == IF call.outcome = "ok" THEN call.body ELSE Null IN
       call' = [call EXCEPT !.result =
                  CASE call.method = "getCardById"   -> FetchResult(call.outcome, body)
                    [] call.method = "getCardByName" -> NameResult(call.outcome, body)
                    [] call.method = "searchCards"   -> SearchResult(call.outcome, body)]
    /\ UNCHANGED <<notPureVars, view>>

NextPure ==
    \/ ValueOnBackend
    \/ ValueOnDetails
    \/ SortByPrice
    \/ RenderPriceCell
    \/ Answer

SpecPure == InitPure /\ [][NextPure]_vars

(* ------------------------- getUserCollections -------------------------- *)

InitValue ==
    /\ InitEnrich
    /\ IdlePure
    /\ InitStore
    /\ IdleImport
    /\ IdleRead
    /\ InitAuth
    /\ InitConn
    /\ prices \in [Ids -> ValuePrices]
    /\ valuation = IdleValuation

\* The collections query answers and result.rows.map starts one closure
\* per collection, each up to its card count query.
GetUserCollections ==
    /\ valuation.pc = "idle"
    /\ \E u \in Users :
          LET rows == SelectSeq(collections, LAMBDA col : col.user_id = u) IN
          valuation' = [IdleValuation EXCEPT
                          !.pc = "running", !.user = u,
                          !.closures = [i \in 1..Len(rows) |->
                                          [IdleClosure EXCEPT !.collection = rows[i].id,
                                                              !.pc = "counting"]]]
    /\ UNCHANGED <<cache, cacheHits, cacheMisses>>
    /\ UNCHANGED notValueVars

\* The card count query of closure i answers; the closure sends the cards
\* query.
Counted ==
    \E i \in DOMAIN valuation.closures :
        LET cl == valuation.closures[i] IN
        /\ cl.pc = "counting"
        /\ valuation' = [valuation EXCEPT
                           !["closures"][i].pc = "listing",
                           !["closures"][i].card_count =
                               SumQuantity({c \in cards : c.collection_id = cl.collection})]
        /\ UNCHANGED <<cache, cacheHits, cacheMisses>>
        /\ UNCHANGED notValueVars

\* The cards query of closure i answers: total_value = 0, and
\* cardsResult.rows.map runs the closure of every card up to its provider
\* await.  The lookups that hit the cache resume as microtasks, in row
\* order, before anything else runs.
Listed ==
    \E i \in DOMAIN valuation.closures :
        LET cl == valuation.closures[i] IN
        /\ cl.pc = "listing"
        /\ \E rows \in RowsOf(cl.collection) :
              LET n == Len(rows)
                  m == MissesUpTo(rows, n, cache, now)
                  hit(j) == CacheHit(cache, rows[j].scryfall_id, now)
              IN
              /\ cacheMisses' = cacheMisses + m
              /\ cacheHits' = cacheHits + (n - m)
              /\ valuation' = [valuation EXCEPT
                    !["closures"][i].pc = "pricing",
                    !["closures"][i].rows = rows,
                    !["closures"][i].state =
                        [j \in 1..n |-> IF hit(j) THEN "ok" ELSE "fetching"],
                    !["closures"][i].total_value = HitTotal(rows, n, cache, now),
                    !.order = @ \o [x \in 1..(n - m) |->
                        <<i, SelectSeq([j \in 1..n |-> j], hit)[x]>>]]
        /\ UNCHANGED cache
        /\ UNCHANGED notValueVars

\* The provider request of card j of closure i ends with outcome o and the
\* continuations run: scryfallService.getCardById stores a body it got,
\* the card's closure adds the price or, in its catch clause, nothing.
PriceSettle ==
    \E i \in DOMAIN valuation.closures :
        LET cl == valuation.closures[i] IN
        /\ cl.pc = "pricing"
        /\ \E j \in DOMAIN cl.rows, o \in Outcomes :
              LET k == cl.rows[j].scryfall_id
                  body == IF o = "ok" THEN ProviderBody(k) ELSE Null
                  res == FetchResult(o, body)
              IN
              /\ cl.state[j] = "fetching"
              /\ cache' = CacheAfterFetch(cache, k, o, body, cacheMisses, now)
              /\ valuation' = [valuation EXCEPT
                    !["closures"][i].state[j] = IF res.ok THEN "ok" ELSE "failed",
                    !["closures"][i].total_value =
                        Plus(@, Contribution(res, cl.rows[j].quantity)),
                    !.order = Append(@, <<i, j>>)]
        /\ UNCHANGED <<cacheHits, cacheMisses>>
        /\ UNCHANGED notValueVars

\* The inner Promise.all of closure i is fulfilled: the closure returns
\* { ...collection, card_count, total_value }.
ClosureDone ==
    \E i \in DOMAIN valuation.closures :
        LET cl == valuation.closures[i] IN
        /\ cl.pc = "pricing"
        /\ \A j \in DOMAIN cl.rows : cl.state[j] # "fetching"
        /\ valuation' = [valuation EXCEPT !["closures"][i].pc = "done"]
        /\ UNCHANGED <<cache, cacheHits, cacheMisses>>
        /\ UNCHANGED notValueVars

\* The outer Promise.all is fulfilled and getUserCollections returns the
\* list.
ValueReturn ==
    /\ valuation.pc = "running"
    /\ \A i \in DOMAIN valuation.closures : valuation.closures[i].pc = "done"
    /\ valuation' = [valuation EXCEPT
          !.pc = "returned",
          !.out = [i \in DOMAIN valuation.closures |->
                     [id |-> valuation.closures[i].collection,
                      card_count |-> valuation.closures[i].card_count,
                      total_value |-> valuation.closures[i].total_value]]]
    /\ UNCHANGED <<cache, cacheHits, cacheMisses>>
    /\ UNCHANGED notValueVars

NextValue ==
    \/ GetUserCollections
    \/ Counted
    \/ Listed
    \/ PriceSettle
    \/ ClosureDone
    \/ ValueReturn

SpecValue == InitValue /\ [][NextValue]_vars

(* ------------------- addCard, updateCard, deleteCard ------------------- *)

\* POST /:collectionId/cards: a body that fails validation is answered
\* 400; otherwise addCard sends the ownership query.
AddStart ==
    \E c \in Clients, u \in Users, x \in DOMAIN collections, data \in AddRequests :
        /\ opsStarted < MaxOps
        /\ ops[c].pc \in {"idle", "done"}
        /\ ops' = [ops EXCEPT ![c] =
                     IF ValidAdd(data)
                     THEN [IdleOp EXCEPT !.kind = "add", !.pc = "owning", !.user = u,
                                         !.collection = collections[x].id, !.data = data]
                     ELSE [IdleOp EXCEPT !.kind = "add", !.pc = "done", !.user = u,
                                         !.collection = collections[x].id, !.data = data,
                                         !.out = Threw(400)]]
        /\ opsStarted' = opsStarted + 1
        /\ UNCHANGED <<cache, cacheHits, cacheMisses, cards, born>>
        /\ UNCHANGED notStoreVars

\* The ownership query answers: 404, or the provider lookup of the
\* requested id up to its await (a hit goes on to the INSERT).
AddOwned ==
    \E c \in Clients :
        LET op == ops[c]
            k == op.data.scryfall_id.v
            hit == CacheHit(cache, k, now)
            res == Fulfilled(cache[k].data)
        IN
        /\ op.kind = "add" /\ op.pc = "owning"
        /\ IF ~Owns(op.user, op.collection)
           THEN /\ ops' = [ops EXCEPT ![c].pc = "done", ![c].out = Threw(404)]
                /\ UNCHANGED <<cacheHits, cacheMisses>>
           ELSE IF hit
           THEN /\ ops' = [ops EXCEPT ![c].pc = AfterLookup(res).pc,
                                       ![c].out = AfterLookup(res).out,
                                       ![c].key = k, ![c].res = res]
                /\ cacheHits' = cacheHits + 1
                /\ UNCHANGED cacheMisses
           ELSE /\ ops' = [ops EXCEPT ![c].pc = "fetching", ![c].key = k]
                /\ cacheMisses' = cacheMisses + 1
                /\ UNCHANGED cacheHits
        /\ UNCHANGED <<cache, cards, born, opsStarted>>
        /\ UNCHANGED notStoreVars

\* The provider request of an addCard ends with outcome o:
\* scryfallService.getCardById stores a body it got or throws, and addCard
\* goes on or is left by the exception.
AddFetched ==
    \E c \in Clients, o \in Outcomes :
        LET op == ops[c]
            k == op.key
            body == IF o = "ok" THEN ProviderBody(k) ELSE Null
            res == FetchResult(o, body)
        IN
        /\ op.kind = "add" /\ op.pc = "fetching"
        /\ cache' = CacheAfterFetch(cache, k, o, body, cacheMisses, now)
        /\ ops' = [ops EXCEPT ![c].pc = AfterLookup(res).pc,
                               ![c].out = AfterLookup(res).out,
                               ![c].res = res]
        /\ UNCHANGED <<cacheHits, cacheMisses, cards, born, opsStarted>>
        /\ UNCHANGED notStoreVars

\* The INSERT of an addCard runs and the call returns the new row; the
\* database refuses a row whose collection is gone, and addCard is left
\* by that error.
AddInsert ==
    \E c \in Clients :
        LET op == ops[c]
            row == InsertRow(NewIds[Cardinality(DOMAIN born) - Cardinality(SeedCards) + 1],
                             op.collection, op.data, op.res.data)
        IN
        /\ op.kind = "add" /\ op.pc = "inserting"
        /\ IF ForeignKeyHolds(op.collection)
           THEN /\ cards' = cards \cup {row}
                /\ born' = [id \in DOMAIN born \cup {row.id} |->
                               IF id = row.id THEN row.scryfall_id ELSE born[id]]
                /\ ops' = [ops EXCEPT ![c].pc = "done", ![c].card = row.id,
                                       ![c].out = Returned(201, row)]
           ELSE /\ ops' = [ops EXCEPT ![c].pc = "done", ![c].out = DbError]
                /\ UNCHANGED <<cards, born>>
        /\ UNCHANGED <<cache, cacheHits, cacheMisses, opsStarted>>
        /\ UNCHANGED notStoreVars

\* PATCH /api/cards/:id: updateCard sends the query of this.getCardById.
UpdateStart ==
    \E c \in Clients, u \in Users, id \in DOMAIN born, data \in UpdateRequests :
        /\ opsStarted < MaxOps
        /\ ops[c].pc \in {"idle", "done"}
        /\ ops' = [ops EXCEPT ![c] =
                     [IdleOp EXCEPT !.kind = "update", !.pc = "finding", !.user = u,
                                    !.card = id, !.data = data]]
        /\ opsStarted' = opsStarted + 1
        /\ UNCHANGED <<cache, cacheHits, cacheMisses, cards, born>>
        /\ UNCHANGED notStoreVars

\* DELETE /api/cards/:id: deleteCard sends the query of this.getCardById.
DeleteStart ==
    \E c \in Clients, u \in Users, id \in DOMAIN born :
        /\ opsStarted < MaxOps
        /\ ops[c].pc \in {"idle", "done"}
        /\ ops' = [ops EXCEPT ![c] =
                     [IdleOp EXCEPT !.kind = "delete", !.pc = "finding", !.user = u,
                                    !.card = id]]
        /\ opsStarted' = opsStarted + 1
        /\ UNCHANGED <<cache, cacheHits, cacheMisses, cards, born>>
        /\ UNCHANGED notStoreVars

\* The query of this.getCardById answers: 404 when the user owns no such
\* card, else the enrichment lookup up to its await (a hit goes on at once).
OwnedCardFound ==
    \E c \in Clients :
        LET op == ops[c]
            found == OwnedCards(op.card, op.user)
            k == (CHOOSE r \in found : TRUE).scryfall_id
            next == AfterFound(op.kind, op.data)
        IN
        /\ op.kind \in {"update", "delete"} /\ op.pc = "finding"
        /\ IF found = {}
           THEN /\ ops' = [ops EXCEPT ![c].pc = "done", ![c].out = Threw(404)]
                /\ UNCHANGED <<cacheHits, cacheMisses>>
           ELSE IF CacheHit(cache, k, now)
           THEN /\ ops' = [ops EXCEPT ![c].pc = next.pc, ![c].out = next.out,
                                       ![c].key = k,
                                       ![c].res = Fulfilled(cache[k].data)]
                /\ cacheHits' = cacheHits + 1
                /\ UNCHANGED cacheMisses
           ELSE /\ ops' = [ops EXCEPT ![c].pc = "fetching", ![c].key = k]
                /\ cacheMisses' = cacheMisses + 1
                /\ UNCHANGED cacheHits
        /\ UNCHANGED <<cache, cards, born, opsStarted>>
        /\ UNCHANGED notStoreVars

\* Mutant: a provider failure ends updateCard and deleteCard with the
\* provider's error.
OwnedCardFetchedRethrow ==
    \E c \in Clients, o \in Outcomes :
        LET op == ops[c]
            k == op.key
            body == IF o = "ok" THEN ProviderBody(k) ELSE Null
            res == FetchResult(o, body)
            next == IF res.ok THEN AfterFound(op.kind, op.data)
                              ELSE [pc |-> "done", out |-> Threw(res.status)]
        IN
        /\ op.kind \in {"update", "delete"} /\ op.pc = "fetching"
        /\ cache' = CacheAfterFetch(cache, k, o, body, cacheMisses, now)
        /\ ops' = [ops EXCEPT ![c].pc = next.pc, ![c].out = next.out,
                               ![c].res = res]
        /\ UNCHANGED <<cacheHits, cacheMisses, cards, born, opsStarted>>
        /\ UNCHANGED notStoreVars

\* The provider request of the enrichment in this.getCardById ends with
\* outcome o; the enrichment never throws, and updateCard or deleteCard
\* goes on.
OwnedCardFetched ==
    \E c \in Clients, o \in Outcomes :
        LET op == ops[c]
            k == op.key
            body == IF o = "ok" THEN ProviderBody(k) ELSE Null
            next == AfterFound(op.kind, op.data)
        IN
        /\ op.kind \in {"update", "delete"} /\ op.pc = "fetching"
        /\ cache' = CacheAfterFetch(cache, k, o, body, cacheMisses, now)
        /\ ops' = [ops EXCEPT ![c].pc = next.pc, ![c].out = next.out,
                               ![c].res = FetchResult(o, body)]
        /\ UNCHANGED <<cacheHits, cacheMisses, cards, born, opsStarted>>
        /\ UNCHANGED notStoreVars

\* The UPDATE of an updateCard runs; RETURNING * gives the row, or nothing
\* when the row is gone.
UpdateWrite ==
    \E c \in Clients :
        LET op == ops[c]
            hit == {r \in cards : r.id = op.card}
            new == {ApplyUpdate(r, op.data) : r \in hit}
        IN
        /\ op.kind = "update" /\ op.pc = "writing"
        /\ cards' = (cards \ hit) \cup new
        /\ ops' = [ops EXCEPT ![c].pc = "done",
                               ![c].out = IF new = {} THEN Returned(200, NoRow)
                                          ELSE Returned(200, CHOOSE r \in new : TRUE)]
        /\ UNCHANGED <<cache, cacheHits, cacheMisses, born, opsStarted>>
        /\ UNCHANGED notStoreVars

\* The DELETE of a deleteCard runs.
DeleteWrite ==
    \E c \in Clients :
        LET op == ops[c] IN
        /\ op.kind = "delete" /\ op.pc = "writing"
        /\ cards' = {r \in cards : r.id # op.card}
        /\ ops' = [ops EXCEPT ![c].pc = "done", ![c].out = Returned(200, NoRow)]
        /\ UNCHANGED <<cache, cacheHits, cacheMisses, born, opsStarted>>
        /\ UNCHANGED notStoreVars

NextStore ==
    \/ AddStart
    \/ AddOwned
    \/ AddFetched
    \/ AddInsert
    \/ UpdateStart
    \/ DeleteStart
    \/ OwnedCardFound
    \/ OwnedCardFetched
    \/ UpdateWrite
    \/ DeleteWrite

SpecStore == Init /\ [][NextStore]_vars

(* ------------------------------ importList ----------------------------- *)

\* importList(entries, ownerName) starts with the request for its first
\* entry.
ImportStart ==
    /\ imp.pc = "idle"
    /\ \E entries \in EntryLists, owner \in {"alice"} :
          imp' = [IdleImportCall EXCEPT !.pc = "running", !.collection = "col1",
                                        !.owner = owner, !.entries = entries, !.i = 1]
    /\ UNCHANGED <<cards, born>>
    /\ UNCHANGED notImportVars

\* The request for the name of entry i ends with outcome o: on success
\* the new card is persisted and joins imported, on any failure the entry
\* joins failed; then the next entry is asked for, or the call returns.
ImportSettle ==
    /\ imp.pc = "running"
    /\ LET entry == imp.entries[imp.i] IN
       \E o \in NameOutcomes(entry.name) :
          LET body == IF o = "ok" THEN ProviderBody(IdOfName(entry.name)) ELSE Null
              res == NameResult(o, body)
              data == [NoRequest EXCEPT !.scryfall_id = Given(body.id),
                                        !.owner_name = Given(imp.owner),
                                        !.quantity = Given(entry.quantity)]
              row == InsertRow(NewIds[Cardinality(DOMAIN born) - Cardinality(SeedCards) + 1],
                               imp.collection, data, body)
              lists == ResolveEntry(imp.lists, imp.i, entry, res, row)
          IN
          /\ cards' = IF res.ok THEN cards \cup {row} ELSE cards
          /\ born' = IF res.ok
                     THEN [id \in DOMAIN born \cup {row.id} |->
                             IF id = row.id THEN row.scryfall_id ELSE born[id]]
                     ELSE born
          /\ imp' = [imp EXCEPT
                        !.lists = lists,
                        !.settled = Append(@, o),
                        !.i = @ + 1,
                        !.pc = IF lists.halted THEN "threw"
                               ELSE IF imp.i = Len(imp.entries) THEN "returned"
                               ELSE "running"]
    /\ UNCHANGED notImportVars

NextImport ==
    \/ ImportStart
    \/ ImportSettle

SpecImport == Init /\ [][NextImport]_vars

(* ------------- getCollectionCards, getCardById, deleteCollection ------- *)

\* Where the enrichment of each of the rows stands after the closures ran
\* up to their provider await.
Looked(rows) ==
    [i \in DOMAIN rows |->
        IF CacheHit(cache, rows[i].scryfall_id, now) THEN "hit" ELSE "pending"]

\* What the lookups that hit gave.
LookedData(rows) ==
    [i \in DOMAIN rows |->
        IF CacheHit(cache, rows[i].scryfall_id, now)
        THEN Enrich(rows[i], Fulfilled(cache[rows[i].scryfall_id].data)).value.scryfall_data
        ELSE Null]

\* GET /:collectionId/cards: getCollectionCards sends the ownership query.
ListStart ==
    \E c \in Clients, u \in Users, x \in DOMAIN collections :
        /\ opsStarted < MaxOps
        /\ reads[c].pc \in {"idle", "done"}
        /\ reads' = [reads EXCEPT ![c] =
                       [IdleReadCall EXCEPT !.kind = "list", !.pc = "owning", !.user = u,
                                            !.target = collections[x].id]]
        /\ opsStarted' = opsStarted + 1
        /\ UNCHANGED <<cache, cacheHits, cacheMisses>>
        /\ UNCHANGED notReadVars

\* The ownership query of getCollectionCards answers: 404, or the cards
\* query is sent.
ListOwned ==
    \E c \in Clients :
        LET rd == reads[c] IN
        /\ rd.kind = "list" /\ rd.pc = "owning"
        /\ reads' = [reads EXCEPT ![c] =
                       IF Owns(rd.user, rd.target)
                       THEN [rd EXCEPT !.pc = "listing"]
                       ELSE [rd EXCEPT !.pc = "done", !.out = ThrewRead(404)]]
        /\ UNCHANGED <<cache, cacheHits, cacheMisses, opsStarted>>
        /\ UNCHANGED notReadVars

\* The cards query answers and result.rows.map runs the closure of every
\* row up to its provider await.
ListListed ==
    \E c \in Clients :
        LET rd == reads[c] IN
        /\ rd.kind = "list" /\ rd.pc = "listing"
        /\ \E rows \in CardsOf(rd.target) :
              LET st == Looked(rows)
                  hits == Cardinality({i \in DOMAIN rows : st[i] = "hit"})
              IN
              /\ reads' = [reads EXCEPT ![c].pc = "enriching", ![c].rows = rows,
                                         ![c].state = st, ![c].datas = LookedData(rows)]
              /\ cacheHits' = cacheHits + hits
              /\ cacheMisses' = cacheMisses + (Len(rows) - hits)
        /\ UNCHANGED <<cache, opsStarted>>
        /\ UNCHANGED notReadVars

\* GET /api/cards/:id: getCardById sends its query.
GetStart ==
    \E c \in Clients, u \in Users, id \in DOMAIN born :
        /\ opsStarted < MaxOps
        /\ reads[c].pc \in {"idle", "done"}
        /\ reads' = [reads EXCEPT ![c] =
                       [IdleReadCall EXCEPT !.kind = "get", !.pc = "finding", !.user = u,
                                            !.target = id]]
        /\ opsStarted' = opsStarted + 1
        /\ UNCHANGED <<cache, cacheHits, cacheMisses>>
        /\ UNCHANGED notReadVars

\* The query of getCardById answers: 404 when the user owns no such card,
\* else the enrichment lookup up to its await.
GetFound ==
    \E c \in Clients :
        LET rd == reads[c]
            found == OwnedCards(rd.target, rd.user)
            rows == <<CHOOSE r \in found : TRUE>>
            st == Looked(rows)
        IN
        /\ rd.kind = "get" /\ rd.pc = "finding"
        /\ IF found = {}
           THEN /\ reads' = [reads EXCEPT ![c].pc = "done", ![c].out = ThrewRead(404)]
                /\ UNCHANGED <<cacheHits, cacheMisses>>
           ELSE /\ reads' = [reads EXCEPT ![c].pc = "enriching", ![c].rows = rows,
                                           ![c].state = st, ![c].datas = LookedData(rows)]
                /\ cacheHits' = IF st[1] = "hit" THEN cacheHits + 1 ELSE cacheHits
                /\ cacheMisses' = IF st[1] = "hit" THEN cacheMisses ELSE cacheMisses + 1
        /\ UNCHANGED <<cache, opsStarted>>
        /\ UNCHANGED notReadVars

\* Mutant: the enrichment writes the set name of the provider data it got
\* back to the row of the card.
ReadFetchedWritesBack ==
    \E c \in Clients, o \in Outcomes :
        \E j \in DOMAIN reads[c].rows :
            LET rd == reads[c]
                k == rd.rows[j].scryfall_id
                body == IF o = "ok" THEN ProviderBody(k) ELSE Null
                res == FetchResult(o, body)
            IN
            /\ rd.pc = "enriching" /\ rd.state[j] = "pending"
            /\ cache' = CacheAfterFetch(cache, k, o, body, cacheMisses, now)
            /\ reads' = [reads EXCEPT
                            ![c].state[j] = IF res.ok THEN "ok" ELSE "failed",
                            ![c].datas[j] = Enrich(rd.rows[j], res).value.scryfall_data]
            /\ cards' = IF res.ok
                         THEN {IF r.id = rd.rows[j].id
                               THEN [r EXCEPT !.set_name = SetNameOf(body)] ELSE r : r \in cards}
                         ELSE cards
            /\ UNCHANGED <<cacheHits, cacheMisses, opsStarted>>
            /\ UNCHANGED <<now, ticks, hist, tasks, batch, doneOrder, started, pureVars,
                           valueVars, collections, ops, born, importVars, authVars, connVars>>

\* The provider request of row j of a read call ends with outcome o:
\* scryfallService.getCardById stores a body it got, and the closure
\* returns the row with the data or, from its catch clause, with null.
ReadFetched ==
    \E c \in Clients, o \in Outcomes :
        \E j \in DOMAIN reads[c].rows :
            LET rd == reads[c]
                k == rd.rows[j].scryfall_id
                body == IF o = "ok" THEN ProviderBody(k) ELSE Null
                res == FetchResult(o, body)
            IN
            /\ rd.pc = "enriching" /\ rd.state[j] = "pending"
            /\ cache' = CacheAfterFetch(cache, k, o, body, cacheMisses, now)
            /\ reads' = [reads EXCEPT
                            ![c].state[j] = IF res.ok THEN "ok" ELSE "failed",
                            ![c].datas[j] = Enrich(rd.rows[j], res).value.scryfall_data]
            /\ UNCHANGED <<cacheHits, cacheMisses, opsStarted>>
            /\ UNCHANGED notReadVars

\* Every closure of a read call has returned: getCollectionCards returns
\* the list, getCardById its one card.
ReadReturn ==
    \E c \in Clients :
        LET rd == reads[c] IN
        /\ rd.pc = "enriching"
        /\ \A j \in DOMAIN rd.rows : rd.state[j] # "pending"
        /\ reads' = [reads EXCEPT
                        ![c].pc = "done",
                        ![c].out = ReturnedList([j \in DOMAIN rd.rows |->
                                                   WithDetails(rd.rows[j], rd.datas[j])])]
        /\ UNCHANGED <<cache, cacheHits, cacheMisses, opsStarted>>
        /\ UNCHANGED notReadVars

NextRead ==
    \/ ListStart
    \/ ListOwned
    \/ ListListed
    \/ GetStart
    \/ GetFound
    \/ ReadFetched
    \/ ReadReturn

\* DELETE /api/collections/:id: deleteCollection sends the ownership query.
DeleteCollectionStart ==
    \E c \in Clients, u \in Users, x \in DOMAIN collections :
        /\ opsStarted < MaxOps
        /\ ops[c].pc \in {"idle", "done"}
        /\ ops' = [ops EXCEPT ![c] =
                     [IdleOp EXCEPT !.kind = "deleteCollection", !.pc = "owning",
                                    !.user = u, !.collection = collections[x].id]]
        /\ opsStarted' = opsStarted + 1
        /\ UNCHANGED <<cards, collections>>
        /\ UNCHANGED notCollectionVars

\* The ownership query of deleteCollection answers: 404, or the DELETE is
\* sent.
DeleteCollectionOwned ==
    \E c \in Clients :
        LET op == ops[c] IN
        /\ op.kind = "deleteCollection" /\ op.pc = "owning"
        /\ ops' = [ops EXCEPT ![c] =
                     IF Owns(op.user, op.collection)
                     THEN [op EXCEPT !.pc = "writing"]
                     ELSE [op EXCEPT !.pc = "done", !.out = Threw(404)]]
        /\ UNCHANGED <<cards, collections, opsStarted>>
        /\ UNCHANGED notCollectionVars

\* DELETE FROM collections WHERE id = $1 runs, with the cascade to cards.
DeleteCollectionWrite ==
    \E c \in Clients :
        LET op == ops[c] IN
        /\ op.kind = "deleteCollection" /\ op.pc = "writing"
        /\ collections' = SelectSeq(collections, LAMBDA r : r.id # op.collection)
        /\ cards' = DeleteCascade(cards, op.collection)
        /\ ops' = [ops EXCEPT ![c].pc = "done", ![c].out = Returned(200, NoRow)]
        /\ UNCHANGED opsStarted
        /\ UNCHANGED notCollectionVars

NextCollections ==
    \/ DeleteCollectionStart
    \/ DeleteCollectionOwned
    \/ DeleteCollectionWrite

\* The requests of the card and collection routes, interleaved.
NextAccess ==
    \/ NextStore
    \/ NextRead
    \/ NextCollections

SpecAccess == Init /\ [][NextAccess]_vars

(* --------------------------- register, login --------------------------- *)

\* register(userData) sends the query for the email.
RegisterStart ==
    \E c \in Clients, email \in Emails, password \in Passwords :
        /\ authStarted < MaxAuth
        /\ auth[c].pc \in {"idle", "done"}
        /\ auth' = [auth EXCEPT ![c] =
                      [IdleAuthCall EXCEPT !.kind = "register", !.pc = "checking",
                                           !.email = email, !.password = password]]
        /\ authStarted' = authStarted + 1
        /\ UNCHANGED users
        /\ UNCHANGED notAuthVars

\* The query of register answers: 409 when a row has the email, else the
\* password is handed to bcrypt.hash.
RegisterChecked ==
    \E c \in Clients :
        LET a == auth[c] IN
        /\ a.kind = "register" /\ a.pc = "checking"
        /\ auth' = [auth EXCEPT ![c] =
                      IF UsersByEmail(a.email) # {}
                      THEN [a EXCEPT !.pc = "done", !.out = EmailInUseError]
                      ELSE [a EXCEPT !.pc = "hashing"]]
        /\ UNCHANGED <<users, authStarted>>
        /\ UNCHANGED notAuthVars

\* bcrypt.hash resolves and register sends the INSERT.
RegisterHashed ==
    \E c \in Clients, salt \in Salts :
        LET a == auth[c] IN
        /\ a.kind = "register" /\ a.pc = "hashing"
        /\ auth' = [auth EXCEPT ![c].pc = "inserting",
                                 ![c].hash = bcryptHash(a.password, salt)]
        /\ UNCHANGED <<users, authStarted>>
        /\ UNCHANGED notAuthVars

\* The INSERT of register runs: the new row and a token for it, or the
\* database's error when the email has been stored in the meantime.
RegisterInsert ==
    \E c \in Clients :
        LET a == auth[c]
            row == UserRow(NewUserIds[Cardinality(users) - Cardinality(SeedUsers) + 1],
                           a.email, a.hash)
        IN
        /\ a.kind = "register" /\ a.pc = "inserting"
        /\ IF UniqueEmailHolds(a.email)
           THEN /\ users' = users \cup {row}
                /\ auth' = [auth EXCEPT ![c].pc = "done", ![c].out = AuthReturned(row)]
           ELSE /\ users' = users
                /\ auth' = [auth EXCEPT ![c].pc = "done", ![c].out = DatabaseErrorOut]
        /\ UNCHANGED authStarted
        /\ UNCHANGED notAuthVars

\* login(credentials) sends the query for the email.
LoginStart ==
    \E c \in Clients, email \in Emails, password \in Passwords :
        /\ authStarted < MaxAuth
        /\ auth[c].pc \in {"idle", "done"}
        /\ auth' = [auth EXCEPT ![c] =
                      [IdleAuthCall EXCEPT !.kind = "login", !.pc = "finding",
                                           !.email = email, !.password = password]]
        /\ authStarted' = authStarted + 1
        /\ UNCHANGED users
        /\ UNCHANGED notAuthVars

\* The query of login answers: 401 when no row has the email, else the
\* password and the stored hash are handed to bcrypt.compare.
LoginFound ==
    \E c \in Clients :
        LET a == auth[c]
            rows == UsersByEmail(a.email)
        IN
        /\ a.kind = "login" /\ a.pc = "finding"
        /\ auth' = [auth EXCEPT ![c] =
                      IF rows = {}
                      THEN [a EXCEPT !.pc = "done", !.out = UnknownEmailError]
                      ELSE [a EXCEPT !.pc = "comparing",
                                     !.found = CHOOSE u \in rows : TRUE]]
        /\ UNCHANGED <<users, authStarted>>
        /\ UNCHANGED notAuthVars

\* bcrypt.compare resolves: 401, or a token for the user.
LoginCompared ==
    \E c \in Clients :
        LET a == auth[c] IN
        /\ a.kind = "login" /\ a.pc = "comparing"
        /\ auth' = [auth EXCEPT ![c].pc = "done",
                                 ![c].out = IF bcryptCompare(a.password, a.found.password_hash)
                                            THEN AuthReturned(a.found)
                                            ELSE WrongPasswordError]
        /\ UNCHANGED <<users, authStarted>>
        /\ UNCHANGED notAuthVars

NextAuth ==
    \/ RegisterStart
    \/ RegisterChecked
    \/ RegisterHashed
    \/ RegisterInsert
    \/ LoginStart
    \/ LoginFound
    \/ LoginCompared

SpecAuth == Init /\ [][NextAuth]_vars

(* ------------------------ the connection monitor ----------------------- *)

\* performHealthCheck() up to its await: the controller of the check before
\* is aborted, and a fetch of that check that is still pending rejects, so
\* that its catch clause and the .then after it run once this call has
\* reached its own fetch.
StartCheck(from, interval) ==
    LET old == abortRef
        aborting == old # 0 /\ checks[old].pc = "fetching"
        m == IF aborting THEN Settled(isConnected, notified, "superseded")
                         ELSE [flag |-> isConnected, log |-> notified]
        p == IF aborting
             THEN ThenPoll(timers, intervalRef, m.flag, checks[old].interval)
             ELSE [timers |-> timers, ref |-> intervalRef]
    IN
    /\ isConnected' = m.flag
    /\ notified' = m.log
    /\ timers' = p.timers
    /\ intervalRef' = p.ref
    /\ checks' = Append(IF aborting
                         THEN [checks EXCEPT ![old].pc = "done",
                                             ![old].result = "superseded"]
                         ELSE checks,
                        NewCheck(from, interval))
    /\ abortRef' = Len(checks) + 1

\* The fetch of health check i settles with outcome o, and the rest of
\* performHealthCheck and the .then after it run.
CheckSettles ==
    \E i \in DOMAIN checks, o \in CheckOutcomes :
        LET m == Settled(isConnected, notified, o)
            p == ThenPoll(timers, intervalRef, m.flag, checks[i].interval)
        IN
        /\ checks[i].pc = "fetching"
        /\ isConnected' = m.flag
        /\ notified' = m.log
        /\ timers' = p.timers
        /\ intervalRef' = p.ref
        /\ checks' = [checks EXCEPT ![i].pc = "done", ![i].result = o]
        /\ UNCHANGED <<abortRef, visible, events>>
        /\ UNCHANGED notConnVars

\* handleApiLost: an API request had a network error.
ApiConnectionLost ==
    LET m == MarkLost(isConnected, notified, "api")
        p == StartPolling(timers, intervalRef, m.flag)
    IN
    /\ events < MaxEvents
    /\ events' = events + 1
    /\ isConnected' = m.flag
    /\ notified' = m.log
    /\ timers' = IF isConnected THEN p.timers ELSE timers
    /\ intervalRef' = IF isConnected THEN p.ref ELSE intervalRef
    /\ UNCHANGED <<abortRef, checks, visible>>
    /\ UNCHANGED notConnVars

\* handleApiConnected: an API request got a response.
ApiConnected ==
    LET m == MarkRestored(isConnected, notified, "api")
        p == StartPolling(timers, intervalRef, m.flag)
    IN
    /\ events < MaxEvents
    /\ events' = events + 1
    /\ isConnected' = m.flag
    /\ notified' = m.log
    /\ timers' = IF ~isConnected THEN p.timers ELSE timers
    /\ intervalRef' = IF ~isConnected THEN p.ref ELSE intervalRef
    /\ UNCHANGED <<abortRef, checks, visible>>
    /\ UNCHANGED notConnVars

\* handleOffline: the browser went offline.
Offline ==
    LET m == MarkLost(isConnected, notified, "offline")
        p == StartPolling(timers, intervalRef, m.flag)
    IN
    /\ events < MaxEvents
    /\ events' = events + 1
    /\ isConnected' = m.flag
    /\ notified' = m.log
    /\ timers' = IF isConnected THEN p.timers ELSE timers
    /\ intervalRef' = IF isConnected THEN p.ref ELSE intervalRef
    /\ UNCHANGED <<abortRef, checks, visible>>
    /\ UNCHANGED notConnVars

\* handleOnline: the browser came back online.
Online ==
    /\ events < MaxEvents
    /\ events' = events + 1
    /\ StartCheck("online", 0)
    /\ UNCHANGED visible
    /\ UNCHANGED notConnVars

\* handleVisibility: the tab was hidden or shown.
VisibilityChange ==
    /\ events < MaxEvents
    /\ events' = events + 1
    /\ visible' = ~visible
    /\ IF ~visible
       THEN StartCheck("visible", 0)
       ELSE UNCHANGED <<isConnected, abortRef, intervalRef, timers, checks, notified>>
    /\ UNCHANGED notConnVars

\* The callback of an interval that is set runs.
IntervalTick ==
    \E t \in timers :
        /\ events < MaxEvents
        /\ events' = events + 1
        /\ IF visible
           THEN StartCheck("interval", t.period)
           ELSE UNCHANGED <<isConnected, abortRef, intervalRef, timers, checks, notified>>
        /\ UNCHANGED visible
        /\ UNCHANGED notConnVars

\* checkNow(), as retryConnection calls it.
CheckNow ==
    /\ events < MaxEvents
    /\ events' = events + 1
    /\ StartCheck("checkNow", 0)
    /\ UNCHANGED visible
    /\ UNCHANGED notConnVars

NextMonitor ==
    \/ CheckSettles
    \/ ApiConnectionLost
    \/ ApiConnected
    \/ Offline
    \/ Online
    \/ VisibilityChange
    \/ IntervalTick
    \/ CheckNow

SpecMonitor == Init /\ [][NextMonitor]_vars

(* ------------------------------ claims -------------------------------- *)

\* The local fields of an enriched card.
Local(v) ==
    [id |-> v.id, collection_id |-> v.collection_id,
     scryfall_id |-> v.scryfall_id, quantity |-> v.quantity]

\* The enrichment of slot s has finished for a stored card.
Enriched(s) == tasks[s].pc = "done" /\ tasks[s].card # NoCard

\* The provider call of slot s failed: a miss whose fetch gave no data.
Failed(s) == Enriched(s) /\ tasks[s].lookup = "miss" /\ ~tasks[s].fetched

\* C1: enrichment never throws on provider failure.  Every finished
\* enrichment of a stored card, single or per card of a batch, returned a
\* value whose local fields are the input record; when the provider call
\* failed its scryfall_data is null; and the batch never rejects.
EnrichNeverThrows ==
    /\ \A s \in Slots :
          Enriched(s) =>
            /\ tasks[s].out.kind = "return"
            /\ Local(tasks[s].out.value) = tasks[s].card
            /\ (Failed(s) => tasks[s].out.value.scryfall_data = Null)
    /\ batch.pc # "threw"

\* C1 witness: the single enrichment and one card of a batch both ended
\* with a failed provider call.
EnrichFailedWitness ==
    /\ Failed(0)
    /\ \E i \in 1..Len(batch.rows) : Failed(i)

\* C2: order preservation.  The list getCollectionCards returns has the
\* length of the input rows and its i-th element carries the i-th row,
\* whatever order the fetches settled in and whichever failed.
OrderPreserved ==
    batch.pc = "returned" =>
        /\ Len(batch.out) = Len(batch.rows)
        /\ \A i \in 1..Len(batch.rows) : Local(batch.out[i]) = batch.rows[i]

\* C2 witness: a batch of two returned after the second card settled
\* first and the first card's fetch failed.
OutOfOrderWitness ==
    /\ batch.pc = "returned"
    /\ doneOrder = <<2, 1>>
    /\ Failed(1)
    /\ tasks[2].fetched

\* C3: failure isolation.  In the returned list every card whose own
\* lookup hit the cache or whose own fetch succeeded carries provider data
\* for its own id (the fetched body, when it fetched), exactly the cards
\* whose own provider call failed carry null, and a failure never makes
\* the batch reject.
FailureIsolated ==
    /\ batch.pc # "threw"
    /\ batch.pc = "returned" =>
          \A i \in 1..Len(batch.rows) :
              LET d == batch.out[i].scryfall_data IN
              /\ tasks[i].fetched => d = tasks[i].body
              /\ tasks[i].lookup = "hit" => d.id = batch.rows[i].scryfall_id
              /\ (d = Null) <=> Failed(i)

\* C3 witness: the returned batch has a failed card next to a card with
\* provider data.
IsolationWitness ==
    /\ batch.pc = "returned"
    /\ \E i, j \in 1..Len(batch.rows) :
          /\ Failed(i)
          /\ batch.out[i].scryfall_data = Null
          /\ batch.out[j].scryfall_data # Null

\* C4: every enriched card has its local fields, and its scryfall_data is
\* non-null exactly when the provider data was obtained in that call, from
\* a valid cache entry or from a successful fetch.
DataIffObtained ==
    \A s \in Slots :
        Enriched(s) =>
            /\ Local(tasks[s].out.value) = tasks[s].card
            /\ (tasks[s].out.value.scryfall_data # Null)
                   <=> (tasks[s].lookup = "hit" \/ tasks[s].fetched)

\* C4 witness: one enrichment answered from the cache, one from a
\* successful fetch and one without data.
ObtainedWitness ==
    \E s, u, w \in Slots :
        /\ Enriched(s) /\ tasks[s].lookup = "hit"
        /\ Enriched(u) /\ tasks[u].fetched
        /\ Failed(w)

\* The slots whose cache lookup happens in a step that starts a call.
LookedUp ==
    IF batch'.pc = "running" /\ batch.pc # "running"
    THEN 1..Len(batch'.rows)
    ELSE IF tasks'[0].card # NoCard THEN {0} ELSE {}

\* The id slot s looks up in such a step.
LookupKey(s) == tasks'[s].card.scryfall_id

\* The cache holds an entry for k younger than the TTL.
FreshEntry(k) == k \in DOMAIN cache /\ now - cache[k].timestamp < cacheTTL

\* The call of slot s is waiting for the provider.
InFlight(s) == tasks[s].pc \in {"fetching", "responded"}

\* C5: cache freshness.  A lookup of id k at time now is a hit, adds one
\* to the hit counter and returns the stored data exactly when the cache
\* holds an entry for k with now - timestamp < TTL; otherwise it is a miss,
\* adds one to the miss counter and returns nothing from the cache.
CacheFreshness ==
    [][started' # started =>
        /\ \A s \in LookedUp :
              IF FreshEntry(LookupKey(s))
              THEN /\ tasks'[s].lookup = "hit"
                   /\ tasks'[s].pc = "done"
                   /\ tasks'[s].out.value.scryfall_data = cache[LookupKey(s)].data
              ELSE /\ tasks'[s].lookup = "miss"
                   /\ tasks'[s].pc = "fetching"
                   /\ tasks'[s].out = Pending
        /\ cacheHits' = cacheHits
              + Cardinality({s \in LookedUp : FreshEntry(LookupKey(s))})
        /\ cacheMisses' = cacheMisses
              + Cardinality({s \in LookedUp : ~FreshEntry(LookupKey(s))})
    ]_vars

\* C5 witness: a lookup answered from an entry one millisecond short of
\* the TTL.
BoundaryHitWitness ==
    \E s \in Slots :
        /\ Enriched(s) /\ tasks[s].lookup = "hit"
        /\ tasks[s].card.scryfall_id \in DOMAIN cache
        /\ now - cache[tasks[s].card.scryfall_id].timestamp = cacheTTL - 1

\* C6: a cache hit makes no network call.  A call sends a provider
\* request only when its lookup missed, and never more than one.
NoCallOnHit ==
    \A s \in Slots :
        /\ tasks[s].net <= 1
        /\ tasks[s].net > 0 => tasks[s].lookup = "miss"
        /\ tasks[s].lookup = "hit" => tasks[s].net = 0

\* C6 witness: one call answered from the cache, another ended in a
\* failed fetch after its single request.
HitAndFailedWitness ==
    \E s, u \in Slots :
        /\ Enriched(s) /\ tasks[s].lookup = "hit" /\ tasks[s].net = 0
        /\ Failed(u) /\ tasks[u].net = 1

\* C7: failures are not cached.  The step in which a provider call fails
\* leaves the cache map unchanged, and afterwards the entry of that id is
\* missing or expired unless it was stored after the failed call's lookup;
\* a lookup that finds no fresh entry is a miss that sends a new request.
FailuresNotCached ==
    [][/\ \A s \in Slots :
            (InFlight(s) /\ tasks'[s].pc = "done" /\ ~tasks'[s].fetched) =>
                /\ cache' = cache
                /\ LET k == tasks[s].card.scryfall_id IN
                   (k \in DOMAIN cache' /\ now - cache'[k].timestamp < cacheTTL)
                       => cache'[k].timestamp >= tasks[s].at
       /\ started' # started =>
            \A s \in LookedUp :
                ~FreshEntry(LookupKey(s)) =>
                    tasks'[s].lookup = "miss" /\ tasks'[s].net = 1
    ]_vars

\* C7 witness: a call for an id whose entry has expired failed, and the
\* expired entry is still the one in the map.
ExpiredFailedWitness ==
    \E s \in Slots :
        /\ Failed(s)
        /\ tasks[s].card.scryfall_id \in DOMAIN cache
        /\ now - cache[tasks[s].card.scryfall_id].timestamp >= cacheTTL

\* C8: periodic sweep.  When the call that made a 100th miss finishes,
\* whether its fetch succeeded or not and however the calls interleaved,
\* no entry older than the TTL is left in the cache.
SweepAfterEvery100thMiss ==
    [][\A s \in Slots :
          (InFlight(s) /\ tasks'[s].pc = "done" /\ tasks[s].missNo % SweepEvery = 0) =>
              \A k \in DOMAIN cache' : ~(now - cache'[k].timestamp > cacheTTL)
    ]_vars

\* C9: concurrent lookups do not corrupt the cache.  Every entry stored
\* under key k holds data the provider returned for id k, and every caller
\* that receives data receives data for the id it asked for.
CacheNotCorrupted ==
    /\ \A k \in DOMAIN cache :
          /\ cache[k].data.id = k
          /\ cache[k].data.ver \in 1..ProviderVer(k)
    /\ \A s \in Slots :
          (Enriched(s) /\ tasks[s].out.value.scryfall_data # Null) =>
              tasks[s].out.value.scryfall_data.id = tasks[s].card.scryfall_id

\* C9 witness: two calls of one batch missed on the same id, both fetched
\* and both wrote the entry.
DoubleWriteWitness ==
    /\ Len(batch.rows) = 2
    /\ batch.rows[1].scryfall_id = batch.rows[2].scryfall_id
    /\ Enriched(1) /\ tasks[1].fetched
    /\ Enriched(2) /\ tasks[2].fetched
    /\ batch.rows[1].scryfall_id \in DOMAIN cache

\* C10 as stated: staleness is bounded by the TTL.  The data a cache hit
\* returns is the provider's current data for that id, or was replaced at
\* the provider less than TTL before the hit.
StalenessBoundedByTTL ==
    [][started' # started =>
        \A s \in LookedUp :
            tasks'[s].lookup = "hit" =>
                LET d == tasks'[s].out.value.scryfall_data IN
                \/ d.ver = ProviderVer(d.id)
                \/ now - hist[d.id][d.ver] < cacheTTL
    ]_vars

\* C10 amended: the data a cache hit returns is the entry stored under the
\* requested id, is data the provider has served for that id, and was
\* stored less than TTL before the hit.
HitStoredWithinTTL ==
    [][started' # started =>
        \A s \in LookedUp :
            tasks'[s].lookup = "hit" =>
                LET k == LookupKey(s)
                    d == tasks'[s].out.value.scryfall_data
                IN
                /\ k \in DOMAIN cache
                /\ d = cache[k].data
                /\ d.id = k
                /\ d.ver \in 1..ProviderVer(k)
                /\ now - cache[k].timestamp < cacheTTL
    ]_vars

\* C10 witness: a hit returned data the provider has already replaced.
StaleHitWitness ==
    \E s \in Slots :
        /\ Enriched(s) /\ tasks[s].lookup = "hit"
        /\ tasks[s].out.value.scryfall_data.ver
              < ProviderVer(tasks[s].card.scryfall_id)

\* C11: cache statistics are process-lifetime counters.  No step (lookup,
\* store, sweep, failed call, clock advance) lowers the hit count or the
\* miss count, and after every step getCacheStats reports these two
\* counters and, as size, the number of ids that have an entry in the map,
\* expired entries included.
StatsNeverReset ==
    [][/\ cacheHits' >= cacheHits
       /\ cacheMisses' >= cacheMisses
       /\ getCacheStats'.hits = cacheHits'
       /\ getCacheStats'.misses = cacheMisses'
       /\ getCacheStats'.size = Cardinality({k \in Ids : k \in DOMAIN cache'})
    ]_vars

\* C11 witness: after hits and misses were counted the map holds an
\* expired entry, which the reported size still counts.
StatsWitness ==
    /\ cacheHits > 0
    /\ cacheMisses > 0
    /\ \E k \in DOMAIN cache : now - cache[k].timestamp >= cacheTTL
    /\ getCacheStats.size = 1

\* C12: batch join.  The step that starts getCollectionCards issues the
\* enrichment call of every row before it waits for any of them; the call
\* returns only when every one of them has settled, with one result per
\* row; and when every provider call eventually settles, a running call
\* eventually returns.
BatchJoin ==
    /\ [][(batch'.pc = "running" /\ batch.pc # "running") =>
             \A i \in 1..Len(batch'.rows) :
                 /\ tasks'[i].card = batch'.rows[i]
                 /\ tasks'[i].pc \in {"fetching", "done"}]_vars
    /\ [](batch.pc = "returned" =>
             /\ \A i \in 1..Len(batch.rows) : tasks[i].pc = "done"
             /\ DOMAIN batch.out = 1..Len(batch.rows))
    /\ [](batch.pc = "running" => <>(batch.pc = "returned"))

\* C12 witness: a call over two rows returned after both of its provider
\* requests were answered, one with data and one with a failure.
JoinWitness ==
    /\ batch.pc = "returned"
    /\ Len(batch.rows) = 2
    /\ tasks[1].lookup = "miss" /\ tasks[2].lookup = "miss"
    /\ tasks[1].fetched
    /\ Failed(2)

\* A price field is set: it is a non-empty price string.
IsSet(x) == x \in PriceStrings \ {""}

\* C13: price precedence.  The unit price the backend total and the
\* collection-details total use for a card is the non-foil USD price when
\* that is set (whatever the foil price), else the foil USD price when
\* that is set, else 0 (neither set, no prices, or no provider data).
PricePrecedence ==
    LET d == view.data
        expected ==
            IF d.present /\ d.prices.present /\ IsSet(d.prices.usd)
            THEN parseFloat(d.prices.usd)
            ELSE IF d.present /\ d.prices.present /\ IsSet(d.prices.usd_foil)
                 THEN parseFloat(d.prices.usd_foil)
                 ELSE Num(0)
    IN
    /\ view.backend # NotYet => view.backend = expected
    /\ view.details # NotYet => view.details = expected

\* C13 witness: both totals priced a card that has only a foil price.
FoilOnlyWitness ==
    /\ view.data.prices.present
    /\ ~IsSet(view.data.prices.usd)
    /\ view.data.prices.usd_foil = "2.00"
    /\ view.backend = Num(200)
    /\ view.details = Num(200)

\* The unit price the price cell shows; '-' shows no price.
CellPrice(c) == IF c.shown THEN parseFloat(c.text) ELSE Num(0)

\* C15: the precedence is applied identically everywhere.  For every
\* combination of non-foil and foil values (price string, null, absent,
\* empty string) the backend total, the collection-details total, the
\* table's sort key and the table's price cell derive the same unit price.
SamePriceEverywhere ==
    (/\ view.backend # NotYet /\ view.details # NotYet
     /\ view.sortKey # NotYet /\ view.cell # NoCell) =>
        /\ view.details = view.backend
        /\ view.sortKey = view.backend
        /\ CellPrice(view.cell) = view.backend

\* The request of the harness has been answered.
Answered == call.result # NoResult

\* C16: error mapping of the single lookups.  getCardById and
\* getCardByName signal AppError 404 exactly when the provider answered
\* not-found, AppError 500 on every other non-success response, rejected
\* fetch or unparsable body, and return a value (the provider's body) only
\* on success.
LookupErrorMapping ==
    (Answered /\ call.method \in {"getCardById", "getCardByName"}) =>
        LET r == call.result IN
        /\ (~r.ok /\ r.status = 404) <=> call.outcome = "notfound"
        /\ (~r.ok /\ r.status = 500) <=> call.outcome \in {"error", "transport", "badjson"}
        /\ r.ok <=> call.outcome = "ok"
        /\ r.ok => r.data = call.body
        /\ ~r.ok => r.data = Null

\* C16 witness: a lookup by name was answered not-found and signalled 404.
NameNotFoundWitness ==
    /\ call.method = "getCardByName"
    /\ call.outcome = "notfound"
    /\ call.result = Rejected(404)

\* C17: search distinguishes zero matches from errors.  On a provider
\* not-found searchCards returns the empty list (total_cards 0, has_more
\* false, no data) and does not raise; on every other non-success
\* response, rejected fetch or unparsable body it raises AppError 500; on
\* success it returns the provider's list.
SearchEmptyOnNotFound ==
    (Answered /\ call.method = "searchCards") =>
        LET r == call.result IN
        /\ call.outcome = "notfound" =>
              /\ r.ok
              /\ r.data.total_cards = 0
              /\ r.data.has_more = FALSE
              /\ r.data.data = <<>>
        /\ call.outcome \in {"error", "transport", "badjson"} =>
              ~r.ok /\ r.status = 500
        /\ call.outcome = "ok" => r.ok /\ r.data = call.body

\* C17 witness: a search was answered not-found and returned the empty
\* list.
SearchNoMatchWitness ==
    /\ call.method = "searchCards"
    /\ call.outcome = "notfound"
    /\ call.result.ok
    /\ call.result.data = EmptyList

\* The rows of closure cl whose provider lookup gave data.
Priced(cl) == {cl.rows[j] : j \in {x \in DOMAIN cl.rows : cl.state[x] = "ok"}}

\* The unit price of a stored card, in cents, by the precedence of the
\* provider's data for its id.
UnitCents(c) ==
    LET pr == prices[c.scryfall_id] IN
    IF IsSet(pr.usd) THEN parseFloat(pr.usd).cents
    ELSE IF IsSet(pr.usd_foil) THEN parseFloat(pr.usd_foil).cents
    ELSE 0

RECURSIVE SumWorth(_)
\* The sum of unit price times quantity over a set of card rows, in cents.
SumWorth(rows) ==
    IF rows = {} THEN 0
    ELSE LET c == CHOOSE x \in rows : TRUE
         IN UnitCents(c) * c.quantity + SumWorth(rows \ {c})

\* C14: collection total value.  For every collection getUserCollections
\* has finished, total_value is the sum, over the collection's cards whose
\* lookup gave data, of unit price times quantity: a card whose lookup
\* failed adds 0 and changes nothing else, whatever the order in which the
\* lookups settled; and the returned list has one such entry per
\* collection of the user.
TotalValueIsSum ==
    /\ \A i \in DOMAIN valuation.closures :
          LET cl == valuation.closures[i]
              stored == {c \in cards : c.collection_id = cl.collection}
          IN
          cl.pc = "done" =>
              /\ {cl.rows[j] : j \in DOMAIN cl.rows} = stored
              /\ Len(cl.rows) = Cardinality(stored)
              /\ cl.total_value = Num(SumWorth(Priced(cl)))
    /\ valuation.pc = "returned" =>
          /\ Len(valuation.out) =
                 Cardinality({x \in DOMAIN collections :
                                 collections[x].user_id = valuation.user})
          /\ \A i \in DOMAIN valuation.out :
                 valuation.out[i].total_value = valuation.closures[i].total_value

\* C14 witness: the call returned a collection of two priced cards whose
\* second lookup settled first and with data while the first failed, and
\* the total is the second card's worth.
TotalWithFailureWitness ==
    /\ valuation.pc = "returned"
    /\ \E i \in DOMAIN valuation.closures :
          LET cl == valuation.closures[i] IN
          /\ Len(cl.rows) = 2
          /\ cl.state = <<"failed", "ok">>
          /\ valuation.order = <<<<i, 2>>, <<i, 1>>>> \/ \E x \in 1..Len(valuation.order) - 1 :
                 valuation.order[x] = <<i, 2>> /\ valuation.order[x + 1] = <<i, 1>>
          /\ UnitCents(cl.rows[1]) > 0
          /\ cl.total_value.cents = UnitCents(cl.rows[2]) * cl.rows[2].quantity
          /\ cl.total_value.cents > 0

\* The rows inserted by a step.
Inserted == {r \in cards' : r.id \notin {q.id : q \in cards}}

\* C19: addCard propagates the failure of its provider lookup and inserts
\* nothing.  The step in which an addCard's lookup fails ends the call
\* with the provider's error (404 for not-found, 500 otherwise) and leaves
\* the cards table as it was; a call that ended with an error has inserted
\* no row; and every row that is inserted carries the scryfall_id of a
\* call whose lookup gave the provider's data for that id.
AddPropagatesLookupFailure ==
    [][/\ \A c \in Clients :
            (ops[c].kind = "add" /\ ops[c].pc = "fetching" /\ ops'[c].pc # "fetching") =>
                IF ops'[c].res.ok
                THEN ops'[c].pc = "inserting" /\ ops'[c].out = NoOut
                ELSE /\ ops'[c].pc = "done"
                     /\ ops'[c].out.kind = "throw"
                     /\ ops'[c].out.status = ops'[c].res.status
                     /\ ops'[c].out.status \in {404, 500}
                     /\ cards' = cards
       /\ \A c \in Clients :
            (ops'[c].kind = "add" /\ ops'[c].out.kind = "throw") => ops'[c].card = "none"
       /\ \A row \in Inserted :
            \E c \in Clients :
                /\ ops[c].kind = "add" /\ ops[c].pc = "inserting"
                /\ ops[c].res.ok
                /\ ops[c].res.data.id = row.scryfall_id
                /\ ops[c].data.scryfall_id.v = row.scryfall_id
                /\ ops'[c].out = Returned(201, row)
    ]_vars

\* C19 witness: one addCard ended with the provider's not-found error
\* and the table unchanged, another inserted its row after its lookup.
AddFailedWitness ==
    \E c, d \in Clients :
        /\ ops[c].kind = "add" /\ ops[c].out = Threw(404) /\ ~ops[c].res.ok
        /\ ops[c].key # "none"
        /\ ops[d].kind = "add" /\ ops[d].out.kind = "return"
        /\ Cardinality(cards) = Cardinality(SeedCards) + 1

\* The fields of a row that updateCard may not write.
Immutable(r) == [id |-> r.id, collection_id |-> r.collection_id, scryfall_id |-> r.scryfall_id]

\* C20: the provider card id is immutable.  Every stored card's
\* scryfall_id is non-empty and is the one the card was inserted with;
\* no step changes the scryfall_id or collection_id of a row that stays;
\* and the UPDATE of an updateCard leaves every other row alone, keeps the
\* ids of the rows, and changes the row it names only in owner_name,
\* current_deck, is_borrowed, quantity, set_code and set_name, as the
\* request says.
ScryfallIdImmutable ==
    [][/\ \A r \in cards' :
            /\ r.scryfall_id # ""
            /\ r.scryfall_id \in Ids
            /\ r.id \in DOMAIN born'
            /\ r.scryfall_id = born'[r.id]
            /\ \A q \in cards' : q.id = r.id => q = r
       /\ \A r \in cards : \A q \in cards' : q.id = r.id => Immutable(q) = Immutable(r)
       /\ \A id \in DOMAIN born : born'[id] = born[id]
       /\ \A c \in Clients :
            (ops[c].kind = "update" /\ ops[c].pc = "writing" /\ ops'[c].pc = "done") =>
                /\ {r.id : r \in cards'} = {r.id : r \in cards}
                /\ \A r \in cards : r.id # ops[c].card => r \in cards'
                /\ \A r \in cards : r.id = ops[c].card =>
                      LET d == ops[c].data IN
                      \E q \in cards' :
                          /\ Immutable(q) = Immutable(r)
                          /\ q.owner_name = IF d.owner_name.given THEN d.owner_name.v
                                                                  ELSE r.owner_name
                          /\ q.quantity = IF d.quantity.given THEN d.quantity.v
                                                              ELSE r.quantity
                          /\ q.is_borrowed = IF d.is_borrowed.given THEN d.is_borrowed.v
                                                                    ELSE r.is_borrowed
                          /\ q.current_deck =
                                IF ~d.current_deck.given THEN r.current_deck
                                ELSE IF d.current_deck.v = "" THEN SqlNull
                                ELSE d.current_deck.v
                          /\ q.set_code =
                                IF ~d.set_code.given THEN r.set_code
                                ELSE IF d.set_code.v = "" THEN SqlNull
                                ELSE d.set_code.v
                          /\ q.set_name =
                                IF ~d.set_name.given THEN r.set_name
                                ELSE IF d.set_name.v = "" THEN SqlNull
                                ELSE d.set_name.v
                          /\ ops'[c].out = Returned(200, q)
    ]_vars

\* C20 witness: an updateCard whose body carried another scryfall_id has
\* rewritten the owner of a card that was added before, and the card has
\* the provider id it was added with.
UpdatedAddedCardWitness ==
    \E c \in Clients :
        /\ ops[c].kind = "update" /\ ops[c].out.kind = "return"
        /\ ops[c].data.scryfall_id.given
        /\ ops[c].card \notin {r.id : r \in SeedCards}
        /\ \E r \in cards :
              /\ r.id = ops[c].card
              /\ r.owner_name = ops[c].data.owner_name.v
              /\ r.scryfall_id # ops[c].data.scryfall_id.v
              /\ r.scryfall_id = born[r.id]

\* The entries of the import an output list holds an item for.
SourcesOf(list) == {list[x].entry : x \in DOMAIN list}

\* C18: partial-failure isolation in deck-list import.  importList never
\* raises; when it has returned, it has asked for every entry, every
\* entry has exactly one item in exactly one of imported and failed (so
\* the two lengths add up to the number of entries), an entry whose name
\* is absent upstream has its one item in failed under its own name, and
\* every entry whose request succeeded is in imported with a persisted
\* card of its quantity and owner.
ImportIsolatesFailures ==
    /\ imp.pc # "threw"
    /\ imp.pc = "returned" =>
          LET n == Len(imp.entries)
              imported == imp.lists.imported
              failed == imp.lists.failed
          IN
          /\ Len(imp.settled) = n
          /\ Len(imported) + Len(failed) = n
          /\ SourcesOf(imported) \cup SourcesOf(failed) = 1..n
          /\ SourcesOf(imported) \cap SourcesOf(failed) = {}
          /\ \A e \in 1..n :
                /\ imp.entries[e].name \notin KnownNames =>
                      \E x \in DOMAIN failed :
                          failed[x].entry = e /\ failed[x].name = imp.entries[e].name
                /\ imp.settled[e] = "ok" =>
                      \E x \in DOMAIN imported :
                          /\ imported[x].entry = e
                          /\ imported[x].card \in cards
                          /\ imported[x].card.quantity = imp.entries[e].quantity
                          /\ imported[x].card.owner_name = imp.owner
                          /\ imported[x].card.scryfall_id = imported[x].scryfall_data.id

\* C18 witness: an import of three entries whose second name is absent
\* upstream returned with the first and the third imported and the second
\* failed as not found.
ImportPartialWitness ==
    /\ imp.pc = "returned"
    /\ Len(imp.entries) = 3
    /\ imp.entries[2].name \notin KnownNames
    /\ SourcesOf(imp.lists.imported) = {1, 3}
    /\ Len(imp.lists.failed) = 1
    /\ imp.lists.failed[1].reason = "not found"

\* C26: lookup accounting.  The step in which calls of
\* scryfallService.getCardById begin adds to the hit and miss counters one
\* per call, to the hit counter for the calls answered from the cache and
\* to the miss counter for the calls that send a request; every call is
\* one or the other; and no other step (an answer, a failure, a
\* continuation, a return, a clock advance) changes either counter, so
\* hits + misses always equals the number of lookups begun.
LookupAccounting ==
    [][LET begun == IF started' # started THEN LookedUp ELSE {} IN
       /\ \A s \in begun : tasks'[s].lookup \in {"hit", "miss"}
       /\ cacheHits' = cacheHits + Cardinality({s \in begun : tasks'[s].lookup = "hit"})
       /\ cacheMisses' = cacheMisses + Cardinality({s \in begun : tasks'[s].lookup = "miss"})
       /\ cacheHits' + cacheMisses' = cacheHits + cacheMisses + Cardinality(begun)
    ]_vars

\* C26 witness: three lookups were counted, one answered from the cache,
\* one whose fetch succeeded and one whose request is still in flight.
AccountingWitness ==
    /\ tasks[0].fetched
    /\ tasks[1].lookup = "hit"
    /\ InFlight(2)
    /\ cacheHits = 1
    /\ cacheMisses \in {2, SweepEvery}

\* The call of slot s stores its body in this step and runs the sweep.
Sweeps(s) ==
    /\ tasks[s].pc = "responded"
    /\ tasks'[s].pc = "done"
    /\ tasks'[s].fetched
    /\ cacheMisses % SweepEvery = 0

\* C27: the sweep agrees with the freshness rule.  A step that runs the
\* sweep keeps, of the entries it finds, exactly those a lookup at that
\* moment would serve as a hit (and the entry it has just stored); every
\* entry a step removes is one a lookup would treat as expired; only a
\* step that runs the sweep removes entries; and a step that begins
\* lookups, of expired entries included, leaves the map as it is.
SweepMatchesFreshness ==
    [][/\ \A s \in Slots :
            Sweeps(s) =>
                \A k \in DOMAIN cache :
                    k \in DOMAIN cache' <=> (CacheHit(cache, k, now) \/ k = StoreKey(s))
       /\ \A k \in DOMAIN cache :
            k \notin DOMAIN cache' =>
                /\ ~CacheHit(cache, k, now)
                /\ now - cache[k].timestamp >= cacheTTL
                /\ \E s \in Slots : Sweeps(s)
       /\ started' # started => cache' = cache
    ]_vars

\* C27 witness: the sweep ran when the entry of A was aged exactly the
\* TTL and removed it; the entry the sweeping call stored is the only one left.
SweptAtTTLWitness ==
    /\ tasks[0].fetched /\ tasks[0].card.scryfall_id = "A"
    /\ "A" \notin DOMAIN cache
    /\ "B" \in DOMAIN cache
    /\ cache["B"].timestamp = cacheTTL
    /\ now = cacheTTL

\* The call of client c is an updateCard with at least one field or a
\* deleteCard.
Writes(c) ==
    \/ ops[c].kind = "delete"
    \/ ops[c].kind = "update" /\ HasUpdates(ops[c].data)

\* The fields of the request are the values of the row.
Carries(row, data) ==
    /\ data.owner_name.given => row.owner_name = data.owner_name.v
    /\ data.current_deck.given => row.current_deck = TextOrNull(data.current_deck)
    /\ data.is_borrowed.given => row.is_borrowed = data.is_borrowed.v
    /\ data.quantity.given => row.quantity = data.quantity.v
    /\ data.set_code.given => row.set_code = TextOrNull(data.set_code)
    /\ data.set_name.given => row.set_name = TextOrNull(data.set_name)

\* C28: card updates and deletions do not depend on the provider.  Once
\* the ownership query of an updateCard with a field or of a deleteCard
\* has found the caller's card, the call goes on to its write whatever
\* the provider lookup gives (data, not-found, any failure); such a call
\* only ever throws the 404 of the ownership query; and its write gives
\* the stored row the values of the request, or removes the row.
WritesIgnoreProvider ==
    /\ [][\A c \in Clients :
            /\ (Writes(c) /\ ops[c].pc = "fetching" /\ ops'[c].pc # "fetching") =>
                    /\ ops'[c].pc = "writing"
                    /\ ops'[c].out = NoOut
            /\ (Writes(c) /\ ops[c].pc = "writing" /\ ops'[c].pc = "done") =>
                    /\ ops'[c].out.kind = "return"
                    /\ ops[c].kind = "delete" =>
                          \A r \in cards' : r.id # ops[c].card
                    /\ ops[c].kind = "update" =>
                          \A r \in cards :
                              r.id = ops[c].card =>
                                  \E w \in cards' :
                                      /\ w.id = r.id
                                      /\ Carries(w, ops[c].data)
                                      /\ ops'[c].out.row = w]_vars
    /\ [](\A c \in Clients :
            (Writes(c) /\ ops[c].out.kind = "throw") =>
                /\ ops[c].out.status = 404
                /\ ops[c].res = NoResult)

\* C28 witness: an updateCard whose lookup ended in the provider's
\* not-found wrote its field, and a deleteCard whose lookup failed removed
\* its card.
WroteWithoutProviderWitness ==
    \E c, d \in Clients :
        /\ ops[c].kind = "update" /\ ops[c].pc = "done"
        /\ ops[c].res = Rejected(404)
        /\ ops[c].out.kind = "return"
        /\ ops[c].out.row \in cards
        /\ ops[c].out.row.owner_name = "bob"
        /\ ops[d].kind = "delete" /\ ops[d].pc = "done"
        /\ ops[d].res = Rejected(500)
        /\ ops[d].out.kind = "return"
        /\ \A r \in cards : r.id # ops[d].card

\* C21: enrichment is a read-only derivation.  No step of
\* getCollectionCards or getCardById creates, changes or deletes a row of
\* users, collections or cards, whatever other requests run in between;
\* of the state shared between requests such a step changes only the
\* cache map and the hit and miss counters.
EnrichmentReadOnly ==
    [][reads' # reads =>
          /\ users' = users
          /\ collections' = collections
          /\ cards' = cards
          /\ UNCHANGED <<ops, born, imp, auth>>
          /\ UNCHANGED <<now, hist, tasks, batch>>
    ]_vars

\* C21 witness: a getCollectionCards call returned two cards, one
\* enriched from a fetch that was stored in the cache and one without
\* data, next to an addCard that inserted a row.
ReadOnlyWitness ==
    \E c \in Clients :
        /\ reads[c].kind = "list" /\ reads[c].pc = "done"
        /\ reads[c].out.kind = "return"
        /\ Len(reads[c].out.list) = 2
        /\ \E i, j \in 1..2 : reads[c].state[i] = "ok" /\ reads[c].state[j] = "failed"
        /\ cache # <<>>
        /\ cacheMisses > 0
        /\ \E r \in cards : r \notin SeedCards

\* The user a collection belongs to, and the user the collection of a
\* stored card belongs to.
OwnerOf(col) ==
    IF \E x \in DOMAIN SeedCollections : SeedCollections[x].id = col
    THEN SeedCollections[CHOOSE x \in DOMAIN SeedCollections :
                            SeedCollections[x].id = col].user_id
    ELSE "none"
CardOwner(id) ==
    IF \E r \in cards : r.id = id
    THEN OwnerOf((CHOOSE r \in cards : r.id = id).collection_id)
    ELSE "none"

\* The ownership query of the call of client c answers in this step, and
\* what the call names does not belong to its user.
ForeignRead(c) ==
    /\ reads'[c] # reads[c]
    /\ \/ reads[c].pc = "owning" /\ OwnerOf(reads[c].target) # reads[c].user
       \/ reads[c].pc = "finding" /\ CardOwner(reads[c].target) # reads[c].user
ForeignWrite(c) ==
    /\ ops'[c] # ops[c]
    /\ \/ ops[c].kind = "add" /\ ops[c].pc = "owning"
            /\ OwnerOf(ops[c].collection) # ops[c].user
       \/ ops[c].kind \in {"update", "delete"} /\ ops[c].pc = "finding"
            /\ CardOwner(ops[c].card) # ops[c].user

\* C22: ownership verification.  getCollectionCards and addCard on a
\* collection of another user, and getCardById, updateCard and deleteCard
\* on a card of another user, end with a 404 error when their ownership
\* query answers, without any row and without a change of a stored
\* record; and every row a call returns is of a collection of the caller.
OwnershipVerified ==
    /\ [][\A c \in Clients :
            /\ ForeignRead(c) =>
                    /\ reads'[c].pc = "done"
                    /\ reads'[c].out = ThrewRead(404)
                    /\ UNCHANGED <<users, collections, cards>>
            /\ ForeignWrite(c) =>
                    /\ ops'[c].pc = "done"
                    /\ ops'[c].out = Threw(404)
                    /\ UNCHANGED <<users, collections, cards>>]_vars
    /\ [](\A c \in Clients :
            /\ \A i \in DOMAIN reads[c].out.list :
                  OwnerOf(reads[c].out.list[i].card.collection_id) = reads[c].user
            /\ (ops[c].kind \in {"add", "update", "delete"} /\ ops[c].out.row # NoRow) =>
                  OwnerOf(ops[c].out.row.collection_id) = ops[c].user)

\* C22 witness: a getCollectionCards on another user's collection that
\* holds cards and a deleteCard on another user's card both ended with 404,
\* and the tables are as they were.
ForeignDeniedWitness ==
    \E c, d \in Clients :
        /\ reads[c].kind = "list" /\ reads[c].pc = "done"
        /\ reads[c].user = "u2" /\ reads[c].target = "col1"
        /\ reads[c].out = ThrewRead(404)
        /\ ops[d].kind = "delete" /\ ops[d].pc = "done"
        /\ ops[d].user = "u2" /\ ops[d].card = "k1"
        /\ ops[d].out = Threw(404)
        /\ cards = SeedCards
        /\ collections = SeedCollections

\* C23: deleting a collection cascades to its cards.  The step in which
\* a deleteCollection succeeds leaves no card that references the
\* collection, and in every state, also when an addCard for the collection
\* runs at the same time, the collection_id of every stored card is the id
\* of a stored collection.
CascadeKeepsReferences ==
    /\ [][\A c \in Clients :
            (ops[c].kind = "deleteCollection" /\ ops[c].pc = "writing"
                /\ ops'[c].pc = "done") =>
                /\ \A r \in cards' : r.collection_id # ops[c].collection
                /\ \A x \in DOMAIN collections' :
                      collections'[x].id # ops[c].collection]_vars
    /\ [](\A r \in cards :
            \E x \in DOMAIN collections : collections[x].id = r.collection_id)

\* C23 witness: a collection with cards was deleted between the ownership
\* query and the INSERT of an addCard for it; the INSERT was refused and
\* none of its cards is left.
AddAfterDeleteWitness ==
    \E c, d \in Clients :
        /\ ops[d].kind = "deleteCollection" /\ ops[d].pc = "done"
        /\ ops[d].out.kind = "return"
        /\ ops[d].collection = "col1"
        /\ ops[c].kind = "add" /\ ops[c].pc = "done"
        /\ ops[c].collection = "col1"
        /\ ops[c].res.ok
        /\ ops[c].out = DbError
        /\ cards = {r \in SeedCards : r.collection_id # "col1"}

\* C24 as stated: duplicate registration is rejected.  No two stored
\* users have the same email, and every register call that does not
\* store a user, the loser of two concurrent calls for one email
\* included, ends with AppError 409 and without a new row.
DuplicateRegistrationRejected ==
    /\ [](\A u, v \in users : u.email = v.email => u = v)
    /\ [](\A c \in Clients :
            (auth[c].kind = "register" /\ auth[c].pc = "done"
                /\ auth[c].out.kind # "return") =>
                /\ auth[c].out.error = "AppError"
                /\ auth[c].out.status = 409)
    /\ [][\A c \in Clients :
            (auth'[c] # auth[c] /\ auth'[c].kind = "register" /\ auth'[c].pc = "done"
                /\ auth'[c].out.kind = "throw") => users' = users]_vars

\* A login of client c has ended for an email no row has, or for a
\* stored email and another password than the stored one.
UnknownEmailLogin(c) ==
    /\ auth[c].kind = "login" /\ auth[c].pc = "done"
    /\ \A u \in users : u.email # auth[c].email
WrongPasswordLogin(c) ==
    /\ auth[c].kind = "login" /\ auth[c].pc = "done"
    /\ \E u \in users : u.email = auth[c].email /\ u.password_hash.of # auth[c].password

\* C25: login does not reveal which credential is wrong.  A login with an
\* unknown email and a login with a known email and a wrong password end
\* with the same error, AppError 401 with one message, and without a
\* token; and no step of a login changes the users table.
LoginIndistinguishable ==
    /\ [](\A c, d \in Clients :
            (UnknownEmailLogin(c) /\ WrongPasswordLogin(d)) =>
                /\ auth[c].out = auth[d].out
                /\ auth[c].out.kind = "throw"
                /\ auth[c].out.error = "AppError"
                /\ auth[c].out.status = 401
                /\ auth[c].out.token = NoToken)
    /\ [](\A c \in Clients :
            (UnknownEmailLogin(c) \/ WrongPasswordLogin(c)) =>
                /\ auth[c].out.status = 401
                /\ auth[c].out.token = NoToken)
    /\ [][\A c \in Clients :
            (auth'[c].kind = "login" /\ auth'[c] # auth[c]) => users' = users]_vars

\* C25 witness: one login with an unknown email and one with the wrong
\* password for a stored email have both ended.
BothLoginsFailedWitness ==
    \E c, d \in Clients :
        /\ UnknownEmailLogin(c)
        /\ WrongPasswordLogin(d)
        /\ auth[c].out.kind = "throw"
        /\ auth[d].out.kind = "throw"
        /\ users = SeedUsers

\* C29: connection notifications alternate.  The calls of
\* onConnectionLost and onConnectionRestored come in turns, the first one
\* a loss, whatever the order of health-check results, API events and
\* browser events; every step either makes one call and changes the flag
\* to what the call says, or makes no call and leaves the flag.
NotificationsAlternate ==
    /\ [](\A i \in DOMAIN notified :
            notified[i].call = IF i % 2 = 1 THEN "lost" ELSE "restored")
    /\ [](isConnected <=> (Len(notified) % 2 = 0))
    /\ [][\/ /\ Len(notified') = Len(notified) + 1
              /\ SubSeq(notified', 1, Len(notified)) = notified
              /\ isConnected' # isConnected
              /\ (isConnected' <=> (notified'[Len(notified')].call = "restored"))
           \/ /\ notified' = notified
              /\ isConnected' = isConnected]_vars

\* C29 witness: a failed health check reported the loss, an API response
\* the restoration and the browser going offline the next loss.
AlternationWitness ==
    /\ Len(notified) = 3
    /\ notified[1] = Notice("lost", "failed")
    /\ notified[2] = Notice("restored", "api")
    /\ notified[3] = Notice("lost", "offline")
    /\ ~isConnected

\* C30 as stated: a superseded health check has no effect.  The step in
\* which a pending check is aborted by the start of the next one changes
\* neither the flag nor the calls made, and every loss reported follows
\* a health check that failed or timed out, an API request with a network
\* error, or the browser going offline.
SupersededCheckSilent ==
    /\ [][\A i \in DOMAIN checks :
            (checks[i].pc = "fetching" /\ checks'[i].result = "superseded") =>
                /\ isConnected' = isConnected
                /\ notified' = notified]_vars
    /\ [](\A i \in DOMAIN notified :
            notified[i].call = "lost" =>
                notified[i].by \in {"notok", "failed", "timeout", "api", "offline"})

====
